---- MODULE Spec2Model ----
(***************************************************************************)
(* A model of parts of the rule engine:                                    *)
(*   - the node wrapper RuleNodeCtx, its initialisation, variable          *)
(*     substitution and hot reload (engine/node.go);                       *)
(*   - the MQTT client node and its lazily built client, and the SSH node  *)
(*     (components/external);                                              *)
(*   - the script filter node in a chain (components/filter);              *)
(*   - the HTTP endpoint Rest: route table, dispatch surface, restart,     *)
(*     close and request handling, call by call and goroutine by           *)
(*     goroutine (endpoint/rest).                                          *)
(* Each part has its own next-state relation and specification; the        *)
(* variables of the other parts stay unchanged.                            *)
(***************************************************************************)
EXTENDS Integers, Sequences, FiniteSets, TLC

VARIABLES
    \* ---- node wrapper (engine/node.go) ----
    rn,            \* the wrapper's fields: Node, SelfDefinition, config, aspects
    chainCtx,      \* rn.ChainCtx: "nil" or "chain"
    chainAspects,  \* chainCtx.aspects
    inst,          \* component instances: what each was initialised with, Destroy calls
    nextInst,      \* the next instance the registry hands out
    rl,            \* the reloading goroutine: pc, def, new ctx, error, call kind
    pre,           \* the wrapper and the instances as they were when the reload was called
    obs,           \* what a concurrent reader of the wrapper last saw
    reloads,       \* reload calls made so far
    \* ---- MQTT client node (components/external/mqtt_client_node.go) ----
    client,        \* x.client: NoClient (nil) or the client stored
    locker,        \* x.Locker: the caller holding it, NoCaller when free
    mq,            \* each OnMsg caller: pc, the client and the error Get returned
    newClientCalls,\* invocations of mqtt.NewClient so far
    failures,      \* invocations of mqtt.NewClient that returned an error
    dst,           \* the goroutine in Destroy: pc, the client it read, the clients closed
    \* ---- HTTP endpoint Rest (endpoint/rest) ----
    routeId,       \* each route object's id, "" while none is set
    routeParams,   \* each route object's recorded params: NoParams or the method
    routeDisabled, \* each route object's disabled flag
    routeWait,     \* each route object's destination: the caller waits for the result
    storageNil,    \* rest.RouterStorage is nil
    storage,       \* rest.RouterStorage: id -> route object, NoRoute where absent
    routerNil,     \* rest.router is nil
    router,        \* rest.router: <<method, path>> -> the handler registered
    started,       \* rest.started
    serving,       \* rest.Server is accepting requests
    rs,            \* the goroutine in Restart: pc, oldRouter, routes left to replay
    ret,           \* what the last AddRouter / RemoveRouter / Start / Restart returned
    resp,          \* the answer to the last request
    recovered,     \* a panic in message processing has been recovered
    escaped,       \* a panic left a handler or AddRouter unrecovered
    ops,           \* calls of the endpoint's API so far
    \* ---- script filter node in a chain (components/filter) ----
    jsScript,      \* the filter node's Config.JsScript
    edges,         \* the chain's relation edges: <<from, relation, to>>
    cx,            \* the message being executed: pc, payload, error slot
    pending,       \* nodes the context has dispatched the message to, not yet run
    invoked,       \* how often each node's OnMsg ran for the message
    fired,         \* the relation each node told the context, "none" before
    sent,          \* messages handed to the chain so far
    \* ---- MQTT client nodes and the SSH node, call by call (components/external) ----
    pooling,       \* SharedNode resolves the nodes' server key to one pooled instance
    pool,          \* the pooled instance of the server key, NoClient while none
    mqn,           \* each MQTT client node: lifecycle, x.client, the client Get gave it
    conns,         \* each client built by mqtt.NewClient: "none", "open", "closed"
    ssh,           \* the SSH node: lifecycle, x.client is set, Config.Cmd
    last,          \* the last call on a node: its arguments, result and tell calls
    calls,         \* calls on the nodes so far
    \* ---- node initialisation and the leaf wrapper's operations (engine/node.go) ----
    made,          \* the last InitRuleNodeCtx call: its arguments and what it returned
    acc,           \* the last call on the wrapper it returned, and its result
    \* ---- variable substitution at node initialisation (engine/node.go) ----
    properties,    \* config.Properties: NilMap or the global properties
    pvChain,       \* chainCtx: "nil" or "chain"
    configuration, \* selfDefinition.Configuration: key -> value
    heap,          \* the string maps in memory: the chain's vars and secrets, the copies
    pv,            \* the last processVariables call: what it returned, what it was given
    sets,          \* changes of the chain's variables so far
    \* ---- HTTP endpoint Rest, goroutine by goroutine (endpoint/rest) ----
    instanceId,    \* rest.SharedNode.InstanceId: "" when the endpoint owns its router
    tbl,           \* rest.RouterStorage: the routes stored
    surf,          \* rest.router: the routes a handler is registered for
    sharedInst,    \* the shared server instance: its RouterStorage and its router
    mutex,         \* the endpoint's RWMutex: the writer holding it, the readers holding it
    gor,           \* the goroutines in addRouter, Restart and Close: pc and locals
    ghost          \* accesses of RouterStorage made without the mutex, and those that raced

nodeVars == <<rn, chainCtx, chainAspects, inst, nextInst, rl, pre, obs, reloads>>

mqttVars == <<client, locker, mq, newClientCalls, failures, dst>>

restVars == <<routeId, routeParams, routeDisabled, routeWait, storageNil, storage, routerNil,
              router, started, serving, rs, ret, resp, recovered, escaped, ops>>

chainVars == <<jsScript, edges, cx, pending, invoked, fired, sent>>

extVars == <<pooling, pool, mqn, conns, ssh, last, calls>>

initVars == <<made, acc>>

procVars == <<properties, pvChain, configuration, heap, pv, sets>>

concVars == <<instanceId, tbl, surf, sharedInst, mutex, gor, ghost>>

vars == <<nodeVars, mqttVars, restVars, chainVars, extVars, initVars, procVars, concVars>>

\* What the actions of one part leave unchanged: the variables of the other parts.
outsideNode == <<mqttVars, restVars, chainVars, extVars, initVars, procVars, concVars>>
outsideMqtt == <<nodeVars, restVars, chainVars, extVars, initVars, procVars, concVars>>
outsideRest == <<nodeVars, mqttVars, chainVars, extVars, initVars, procVars, concVars>>
outsideChain == <<nodeVars, mqttVars, restVars, extVars, initVars, procVars, concVars>>
outsideExt == <<nodeVars, mqttVars, restVars, chainVars, initVars, procVars, concVars>>
outsideInit == <<nodeVars, mqttVars, restVars, chainVars, extVars, procVars, concVars>>
outsideProc == <<nodeVars, mqttVars, restVars, chainVars, extVars, initVars, concVars>>
outsideConc == <<nodeVars, mqttVars, restVars, chainVars, extVars, initVars, procVars>>

----------------------------------------------------------------------------
(* Bounds of the model *)

MaxReloads == 2
MaxVer == 1
NumCallers == 3
MaxOps == 4
MaxMsgs == 2
MaxCalls == 5
MaxPieces == 2
MaxSets == 1
MaxRouters == 2

----------------------------------------------------------------------------
(* Node wrapper: engine/node.go *)

NoNode == 0
NoErr == "nil"
NilCtx == "nilctx"
NoDef == "nodef"

Insts == 1..(MaxReloads + 1)

\* A node definition: the component type, its configuration, a version tag
\* that tells one definition from the next.
Types == {"registered", "unregistered"}
Cfgs == {"good", "bad", "forbidden"}
Defs == [type : Types, cfg : Cfgs, ver : 0..MaxVer]

\* The definition bytes handed to ReloadSelf: they decode to a definition or not.
Bytes == [valid : BOOLEAN, def : {d \in Defs : d.ver > 0}]

AspectLists == {<<>>, <<"log">>, <<"log", "guard">>, <<"guard", "log">>}

\* aspect.OnNodeBeforeInit(config, selfDefinition): the guard aspect rejects a
\* forbidden configuration, the log aspect rejects nothing.
OnNodeBeforeInit(aspect, def) ==
    IF aspect = "guard" /\ def.cfg = "forbidden" THEN "rejected" ELSE NoErr

\* config.ComponentsRegistry.NewNode(type)
NewNode(type) == IF type = "registered" THEN NoErr ELSE "unregistered"

\* node.Init(config, configuration): a component rejects a bad configuration
NodeInit(def) == IF def.cfg = "bad" THEN "initfail" ELSE NoErr

EmptyCtx == [Node |-> NoNode, ChainCtx |-> "nil", SelfDefinition |-> NoDef,
             config |-> "noconfig", aspects |-> <<>>]

\* The first before-init aspect that rejects def, 0 when none does.
RECURSIVE FirstReject(_, _, _)
FirstReject(aspects, def, i) ==
    IF i > Len(aspects) THEN 0
    ELSE IF OnNodeBeforeInit(aspects[i], def) # NoErr THEN i
    ELSE FirstReject(aspects, def, i + 1)

\* initRuleNodeCtx running every before-init aspect before it looks at an error.
initRuleNodeCtx_RunAll(config, chain, aspects, def, fresh) ==
    IF FirstReject(aspects, def, 1) # 0
    THEN [ctx |-> NilCtx, err |-> "rejected", created |-> NoNode, inited |-> FALSE,
          ran |-> Len(aspects), shape |-> "nil"]
    ELSE IF NewNode(def.type) # NoErr
    THEN [ctx |-> [Node |-> NoNode, ChainCtx |-> chain, SelfDefinition |-> def,
                   config |-> config, aspects |-> aspects],
          err |-> NewNode(def.type), created |-> NoNode, inited |-> FALSE,
          ran |-> Len(aspects), shape |-> "set"]
    ELSE IF NodeInit(def) # NoErr
    THEN [ctx |-> EmptyCtx, err |-> NodeInit(def), created |-> fresh, inited |-> TRUE,
          ran |-> Len(aspects), shape |-> "empty"]
    ELSE [ctx |-> [Node |-> fresh, ChainCtx |-> chain, SelfDefinition |-> def,
                   config |-> config, aspects |-> aspects],
          err |-> NoErr, created |-> fresh, inited |-> TRUE,
          ran |-> Len(aspects), shape |-> "set"]

\* initRuleNodeCtx returning an empty wrapper when the type is not registered.
initRuleNodeCtx_EmptyOnNewNodeErr(config, chain, aspects, def, fresh) ==
    IF FirstReject(aspects, def, 1) # 0
    THEN [ctx |-> NilCtx, err |-> "rejected", created |-> NoNode, inited |-> FALSE,
          ran |-> FirstReject(aspects, def, 1), shape |-> "nil"]
    ELSE IF NewNode(def.type) # NoErr
    THEN [ctx |-> EmptyCtx, err |-> NewNode(def.type), created |-> NoNode,
          inited |-> FALSE, ran |-> Len(aspects), shape |-> "empty"]
    ELSE IF NodeInit(def) # NoErr
    THEN [ctx |-> EmptyCtx, err |-> NodeInit(def), created |-> fresh, inited |-> TRUE,
          ran |-> Len(aspects), shape |-> "empty"]
    ELSE [ctx |-> [Node |-> fresh, ChainCtx |-> chain, SelfDefinition |-> def,
                   config |-> config, aspects |-> aspects],
          err |-> NoErr, created |-> fresh, inited |-> TRUE,
          ran |-> Len(aspects), shape |-> "set"]

\* initRuleNodeCtx: the wrapper and the error it returns, with the instance the
\* registry created (NoNode when none), whether the component's Init ran, how
\* many before-init aspects ran, and what the returned pointer is: nil, an
\* empty wrapper or one with its fields set.
initRuleNodeCtx(config, chain, aspects, def, fresh) ==
    IF FirstReject(aspects, def, 1) # 0
    THEN [ctx |-> NilCtx, err |-> "rejected", created |-> NoNode, inited |-> FALSE,
          ran |-> FirstReject(aspects, def, 1), shape |-> "nil"]
    ELSE IF NewNode(def.type) # NoErr
    THEN [ctx |-> [Node |-> NoNode, ChainCtx |-> chain, SelfDefinition |-> def,
                   config |-> config, aspects |-> aspects],
          err |-> NewNode(def.type), created |-> NoNode, inited |-> FALSE,
          ran |-> Len(aspects), shape |-> "set"]
    ELSE IF NodeInit(def) # NoErr
    THEN [ctx |-> EmptyCtx, err |-> NodeInit(def), created |-> fresh, inited |-> TRUE,
          ran |-> Len(aspects), shape |-> "empty"]
    ELSE [ctx |-> [Node |-> fresh, ChainCtx |-> chain, SelfDefinition |-> def,
                   config |-> config, aspects |-> aspects],
          err |-> NoErr, created |-> fresh, inited |-> TRUE,
          ran |-> Len(aspects), shape |-> "set"]

NoInst == [def |-> NoDef, aspects |-> <<>>, state |-> "none", destroys |-> 0]

IdleRl == [pc |-> "idle", def |-> NoDef, ctx |-> NilCtx, err |-> NoErr, kind |-> "none"]

Snapshot == [rn |-> rn, inst |-> inst]

\* The state after InitRuleNodeCtx has returned a live wrapper for a definition
\* that every before-init aspect accepted.
NodeInit0 ==
    /\ chainCtx \in {"nil", "chain"}
    /\ chainAspects \in AspectLists
    /\ \E d \in {x \in Defs : x.ver = 0}, as \in AspectLists :
          LET r == initRuleNodeCtx("config", chainCtx, as, d, 1) IN
          /\ r.err = NoErr
          /\ rn = r.ctx
          /\ inst = [i \in Insts |->
                        IF i = 1 THEN [def |-> d, aspects |-> as, state |-> "live",
                                       destroys |-> 0]
                        ELSE NoInst]
    /\ nextInst = 2
    /\ rl = IdleRl
    /\ pre = Snapshot
    /\ obs = [Node |-> rn.Node, def |-> rn.SelfDefinition, aspects |-> rn.aspects,
              destroyed |-> FALSE]
    /\ reloads = 0

\* ReloadSelf(def []byte): decode, then ReloadSelfFromDef; a decode error returns.
ReloadSelf(b) ==
    /\ rl.pc = "idle"
    /\ reloads < MaxReloads
    /\ reloads' = reloads + 1
    /\ pre' = Snapshot
    /\ rl' = IF b.valid
             THEN [IdleRl EXCEPT !.pc = "init", !.def = b.def, !.kind = "bytes"]
             ELSE [IdleRl EXCEPT !.pc = "returned", !.err = "decode", !.kind = "bytes"]
    /\ UNCHANGED <<outsideNode, rn, chainCtx, chainAspects, inst, nextInst, obs>>

\* ReloadSelfFromDef(def), the call
ReloadSelfFromDef(d) ==
    /\ rl.pc = "idle"
    /\ reloads < MaxReloads
    /\ reloads' = reloads + 1
    /\ pre' = Snapshot
    /\ rl' = [IdleRl EXCEPT !.pc = "init", !.def = d, !.kind = "def"]
    /\ UNCHANGED <<outsideNode, rn, chainCtx, chainAspects, inst, nextInst, obs>>

\* ReloadInit with the old instance destroyed before the error is looked at.
ReloadInit_DestroyFirst ==
    /\ rl.pc = "init"
    /\ LET r == initRuleNodeCtx(rn.config, chainCtx,
                                IF chainCtx = "nil" THEN <<>> ELSE chainAspects,
                                rl.def, nextInst)
           destroyed == [inst EXCEPT ![rn.Node].destroys = @ + 1] IN
       /\ inst' = IF r.created = NoNode THEN destroyed
                  ELSE [destroyed EXCEPT ![r.created] =
                           [def |-> rl.def,
                            aspects |-> IF chainCtx = "nil" THEN <<>> ELSE chainAspects,
                            state |-> IF r.err = NoErr THEN "live" ELSE "failed",
                            destroys |-> 0]]
       /\ nextInst' = IF r.created = NoNode THEN nextInst ELSE nextInst + 1
       /\ rl' = IF r.err = NoErr
                THEN [rl EXCEPT !.pc = "copyNode", !.ctx = r.ctx]
                ELSE [rl EXCEPT !.pc = "returned", !.err = r.err]
    /\ UNCHANGED <<outsideNode, rn, chainCtx, chainAspects, pre, obs, reloads>>

\* ReloadSelfFromDef, lines 128-136: build a fresh wrapper; on an error return it.
ReloadInit ==
    /\ rl.pc = "init"
    /\ LET r == initRuleNodeCtx(rn.config, chainCtx,
                                IF chainCtx = "nil" THEN <<>> ELSE chainAspects,
                                rl.def, nextInst) IN
       /\ inst' = IF r.created = NoNode THEN inst
                  ELSE [inst EXCEPT ![r.created] =
                           [def |-> rl.def,
                            aspects |-> IF chainCtx = "nil" THEN <<>> ELSE chainAspects,
                            state |-> IF r.err = NoErr THEN "live" ELSE "failed",
                            destroys |-> 0]]
       /\ nextInst' = IF r.created = NoNode THEN nextInst ELSE nextInst + 1
       /\ rl' = IF r.err = NoErr
                THEN [rl EXCEPT !.pc = "destroy", !.ctx = r.ctx]
                ELSE [rl EXCEPT !.pc = "returned", !.err = r.err]
    /\ UNCHANGED <<outsideNode, rn, chainCtx, chainAspects, pre, obs, reloads>>

\* ReloadDestroy calling the old component's Destroy twice.
ReloadDestroy_Twice ==
    /\ rl.pc = "destroy"
    /\ inst' = [inst EXCEPT ![rn.Node].destroys = @ + 2]
    /\ rl' = [rl EXCEPT !.pc = "copyNode"]
    /\ UNCHANGED <<outsideNode, rn, chainCtx, chainAspects, nextInst, pre, obs, reloads>>

\* rn.Destroy(), line 137: the embedded component's Destroy
ReloadDestroy ==
    /\ rl.pc = "destroy"
    /\ inst' = [inst EXCEPT ![rn.Node].destroys = @ + 1]
    /\ rl' = [rl EXCEPT !.pc = "copyNode"]
    /\ UNCHANGED <<outsideNode, rn, chainCtx, chainAspects, nextInst, pre, obs, reloads>>

\* Copy, lines 163-166: four assignments, one after the other
CopyNode ==
    /\ rl.pc = "copyNode"
    /\ rn' = [rn EXCEPT !.Node = rl.ctx.Node]
    /\ rl' = [rl EXCEPT !.pc = "copyConfig"]
    /\ UNCHANGED <<outsideNode, chainCtx, chainAspects, inst, nextInst, pre, obs, reloads>>

CopyConfig ==
    /\ rl.pc = "copyConfig"
    /\ rn' = [rn EXCEPT !.config = rl.ctx.config]
    /\ rl' = [rl EXCEPT !.pc = "copyAspects"]
    /\ UNCHANGED <<outsideNode, chainCtx, chainAspects, inst, nextInst, pre, obs, reloads>>

CopyAspects ==
    /\ rl.pc = "copyAspects"
    /\ rn' = [rn EXCEPT !.aspects = rl.ctx.aspects]
    /\ rl' = [rl EXCEPT !.pc = "copyDef"]
    /\ UNCHANGED <<outsideNode, chainCtx, chainAspects, inst, nextInst, pre, obs, reloads>>

CopyDef ==
    /\ rl.pc = "copyDef"
    /\ rn' = [rn EXCEPT !.SelfDefinition = rl.ctx.SelfDefinition]
    /\ rl' = [rl EXCEPT !.pc = "returned"]
    /\ UNCHANGED <<outsideNode, chainCtx, chainAspects, inst, nextInst, pre, obs, reloads>>

\* The caller has the result and goes on.
ReloadReturn ==
    /\ rl.pc = "returned"
    /\ rl' = IdleRl
    /\ UNCHANGED <<outsideNode, rn, chainCtx, chainAspects, inst, nextInst, pre, obs, reloads>>

\* A concurrent message execution or accessor call reads the wrapper:
\* the embedded Node, SelfDefinition (IsDebugMode, GetNodeId, DSL), the aspects.
Observe ==
    /\ obs' = [Node |-> rn.Node, def |-> rn.SelfDefinition, aspects |-> rn.aspects,
               destroyed |-> inst[rn.Node].destroys > 0]
    /\ obs' # obs
    /\ UNCHANGED <<outsideNode, rn, chainCtx, chainAspects, inst, nextInst, rl, pre, reloads>>

NodeNext ==
    \/ \E b \in Bytes : ReloadSelf(b)
    \/ \E d \in {x \in Defs : x.ver > 0} : ReloadSelfFromDef(d)
    \/ ReloadInit
    \/ ReloadDestroy
    \/ CopyNode
    \/ CopyConfig
    \/ CopyAspects
    \/ CopyDef
    \/ ReloadReturn
    \/ Observe

----------------------------------------------------------------------------
(* MQTT client node: components/external/mqtt_client_node.go *)

NoClient == 0
NoCaller == 0
Callers == 1..NumCallers

IdleCaller == [pc |-> "idle", got |-> NoClient, err |-> NoErr, waited |-> FALSE,
               afterDestroy |-> FALSE]

IdleDst == [pc |-> "idle", seen |-> NoClient, closed |-> {}]

\* The state after New and Init with NodeClientInitNow = false: nothing built.
MqttInit0 ==
    /\ client = NoClient
    /\ locker = NoCaller
    /\ mq = [t \in Callers |-> IdleCaller]
    /\ newClientCalls = 0
    /\ failures = 0
    /\ dst = IdleDst

\* OnMsg, lines 120-124: the topic is rendered, then the client is asked for.
OnMsg(t) ==
    /\ mq[t].pc = "idle"
    /\ mq' = [mq EXCEPT ![t].pc = "get", ![t].afterDestroy = (dst.pc = "returned")]
    /\ UNCHANGED <<outsideMqtt, dst, client, locker, newClientCalls, failures>>

\* SharedNode.Get with no pooled instance id: it runs the construction function
\* the node gave to Init, which is initClient.
Get(t) ==
    /\ mq[t].pc = "get"
    /\ mq' = [mq EXCEPT ![t].pc = "lock", ![t].waited = (locker # NoCaller)]
    /\ UNCHANGED <<outsideMqtt, dst, client, locker, newClientCalls, failures>>

\* initClient, line 148: x.Locker.Lock()
initClientLock(t) ==
    /\ mq[t].pc = "lock"
    /\ locker = NoCaller
    /\ locker' = t
    /\ mq' = [mq EXCEPT ![t].pc = "check"]
    /\ UNCHANGED <<outsideMqtt, dst, client, newClientCalls, failures>>

\* initClientCheck without the look at x.client: every caller constructs.
initClientCheck_NoRecheck(t) ==
    /\ mq[t].pc = "check"
    /\ mq' = [mq EXCEPT ![t].pc = "construct"]
    /\ UNCHANGED <<outsideMqtt, dst, client, locker, newClientCalls, failures>>

\* initClient, lines 151-157: an existing client is returned as it is
initClientCheck(t) ==
    /\ mq[t].pc = "check"
    /\ mq' = IF client # NoClient
             THEN [mq EXCEPT ![t].pc = "unlock", ![t].got = client]
             ELSE [mq EXCEPT ![t].pc = "construct"]
    /\ UNCHANGED <<outsideMqtt, dst, client, locker, newClientCalls, failures>>

\* initClientNew keeping the client of a failed construction in x.client.
initClientNew_StoreOnFailure(t) ==
    /\ mq[t].pc = "construct"
    /\ newClientCalls' = newClientCalls + 1
    /\ \E ok \in BOOLEAN :
          IF ok
          THEN /\ mq' = [mq EXCEPT ![t].pc = "store", ![t].got = newClientCalls + 1]
               /\ failures' = failures
               /\ client' = client
          ELSE /\ mq' = [mq EXCEPT ![t].pc = "unlock", ![t].err = "connect"]
               /\ failures' = failures + 1
               /\ client' = newClientCalls + 1
    /\ UNCHANGED <<outsideMqtt, dst, locker>>

\* initClient, lines 159-162: mqtt.NewClient under a 4 s timeout succeeds or fails
initClientNew(t) ==
    /\ mq[t].pc = "construct"
    /\ newClientCalls' = newClientCalls + 1
    /\ \E ok \in BOOLEAN :
          IF ok
          THEN /\ mq' = [mq EXCEPT ![t].pc = "store", ![t].got = newClientCalls + 1]
               /\ failures' = failures
          ELSE /\ mq' = [mq EXCEPT ![t].pc = "unlock", ![t].err = "connect"]
               /\ failures' = failures + 1
    /\ UNCHANGED <<outsideMqtt, dst, client, locker>>

\* initClient, lines 163-167: the client is stored only on success
initClientStore(t) ==
    /\ mq[t].pc = "store"
    /\ client' = mq[t].got
    /\ mq' = [mq EXCEPT ![t].pc = "unlock"]
    /\ UNCHANGED <<outsideMqtt, dst, locker, newClientCalls, failures>>

\* initClient, line 149: the deferred x.Locker.Unlock(), and the return to OnMsg
initClientUnlock(t) ==
    /\ mq[t].pc = "unlock"
    /\ locker = t
    /\ locker' = NoCaller
    /\ mq' = [mq EXCEPT ![t].pc = "returned"]
    /\ UNCHANGED <<outsideMqtt, dst, client, newClientCalls, failures>>

\* Destroy, lines 137-139: x.client is read under the read lock of clientMutex;
\* x.Locker is not taken.
DestroyRead ==
    /\ dst.pc = "idle"
    /\ dst' = [dst EXCEPT !.pc = "close", !.seen = client]
    /\ UNCHANGED <<outsideMqtt, client, locker, mq, newClientCalls, failures>>

\* Destroy, lines 141-143: the client read, if any, is closed; x.client is left
\* as it is.
DestroyClose ==
    /\ dst.pc = "close"
    /\ dst' = [dst EXCEPT !.pc = "returned",
                          !.closed = IF dst.seen # NoClient THEN @ \cup {dst.seen} ELSE @]
    /\ UNCHANGED <<outsideMqtt, client, locker, mq, newClientCalls, failures>>

MqttNext ==
    \/ \E t \in Callers : OnMsg(t)
    \/ \E t \in Callers : Get(t)
    \/ \E t \in Callers : initClientLock(t)
    \/ \E t \in Callers : initClientCheck(t)
    \/ \E t \in Callers : initClientNew(t)
    \/ \E t \in Callers : initClientStore(t)
    \/ \E t \in Callers : initClientUnlock(t)
    \/ DestroyRead
    \/ DestroyClose

----------------------------------------------------------------------------
(* HTTP endpoint: endpoint/rest (src/unnamed/part_000) *)

Methods == {"GET", "POST"}
Paths == {"/a", "/b"}
NoRoute == "nil"
NoParams == "none"

\* Route objects a caller holds and may pass to AddRouter, more than once.
Routes == {"r1", "r2", "r3"}

\* router.FromToString(): r1 and r2 name the same path, r2 with a trailing blank
From(r) == CASE r = "r1" -> "/a" [] r = "r2" -> "/a " [] OTHER -> "/b"

\* The id the caller gave the route before registering it: only r3 has one.
GivenId(r) == IF r = "r3" THEN "r3" ELSE ""

\* from.GetTo().IsWait() of the route as its caller built it: r1 is a waiting
\* route, the others fire and forget
IsWait(r) == r = "r1"

\* strings.TrimSpace on the strings of the model
TrimSpace(str) ==
    CASE str = "/a " -> "/a" [] str = " r3 " -> "r3" [] OTHER -> str

\* strings.ToUpper on the method names of the model
ToUpper(str) ==
    CASE str = "get" -> "GET" [] str = "post" -> "POST" [] OTHER -> str

\* convertPathParams: {name} becomes :name; the paths of the model hold no braces
convertPathParams(path) == IF path = "/{id}" THEN "/:id" ELSE path

\* RouterKey(method, from)
RouterKey(method, from) == method \o ":" \o from

Ids == {RouterKey(m, p) : m \in Methods, p \in Paths} \cup {"r3", "zz"}

\* What a caller passes as params ...interface{}
ParamInputs == {<<>>, <<"GET">>, <<"post">>}

NoHandler == [route |-> NoRoute, isWait |-> FALSE]

\* httprouter.New(): no handler registered
EmptyRouter == [k \in Methods \X Paths |-> NoHandler]

\* make(map[string]endpoint.Router)
EmptyStorage == [id \in Ids |-> NoRoute]

IdleRs == [pc |-> "idle", old |-> EmptyStorage, todo |-> {}, pre |-> EmptyStorage,
           errs |-> {}, table |-> EmptyStorage, flags |-> {}]

NoRet == [op |-> "none", id |-> "", err |-> NoErr, key |-> "", route |-> NoRoute,
          nparams |-> 0, rereg |-> FALSE]

NoResp == [method |-> "", path |-> "", route |-> NoRoute, result |-> "none",
           ctx |-> "none", gone |-> FALSE, cancelled |-> FALSE]

\* The endpoint after New and Init: no route table, no router, not started.
RestInit0 ==
    /\ routeId = [r \in Routes |-> GivenId(r)]
    /\ routeParams = [r \in Routes |-> NoParams]
    /\ routeDisabled = [r \in Routes |-> FALSE]
    /\ routeWait = [r \in Routes |-> IsWait(r)]
    /\ storageNil = TRUE
    /\ storage = EmptyStorage
    /\ routerNil = TRUE
    /\ router = EmptyRouter
    /\ started = FALSE
    /\ serving = FALSE
    /\ rs = IdleRs
    /\ ret = NoRet
    /\ resp = NoResp
    /\ recovered = FALSE
    /\ escaped = "none"
    /\ ops = 0

\* The routes of a table that are enabled
Enabled(table, disabled) ==
    [id \in Ids |-> IF table[id] # NoRoute /\ ~disabled[table[id]]
                    THEN table[id] ELSE NoRoute]

\* httprouter's Router.Handle(method, path, handle): it panics when a handle is
\* already registered for the method and path, and registers the handle otherwise.
Handle(rt, method, path, h) ==
    IF rt[<<method, path>>].route # NoRoute
    THEN [router |-> rt, panicked |-> TRUE]
    ELSE [router |-> [rt EXCEPT ![<<method, path>>] = h], panicked |-> FALSE]

\* addRouter(method, item) for an endpoint that owns its router: the state it
\* leaves, and whether router.Handle panicked on the way.
addRouter(method0, item, ids, params, nilTable, table, nilRouter, rt) ==
    LET method == ToUpper(method0)
        path == TrimSpace(From(item))
        id == IF ids[item] = "" THEN RouterKey(method, path) ELSE ids[item]
        base == IF nilRouter THEN EmptyRouter ELSE rt
        reg == Handle(base, method, convertPathParams(path),
                      [route |-> item, isWait |-> routeWait[item]])
    IN [routeId |-> [ids EXCEPT ![item] = id],
        routeParams |-> [params EXCEPT ![item] = method],
        storage |-> [(IF nilTable THEN EmptyStorage ELSE table) EXCEPT ![id] = item],
        router |-> reg.router,
        panicked |-> reg.panicked,
        key |-> id,
        rereg |-> ~nilTable /\ table[id] # NoRoute]

\* AddRouterCall registering under GET when no method is given.
AddRouterCall_DefaultGet(item, ps, ids, params, nilTable, table, nilRouter, rt) ==
    IF item = NoRoute
    THEN [routeId |-> ids, routeParams |-> params, storageNil |-> nilTable,
          storage |-> table, routerNil |-> nilRouter, router |-> rt,
          id |-> "", err |-> "router can not nil", key |-> "",
          rereg |-> FALSE, escaped |-> FALSE]
    ELSE LET a == addRouter(IF Len(ps) <= 0 THEN "GET" ELSE ToUpper(ps[1]), item, ids,
                            params, nilTable, table, nilRouter, rt)
         IN [routeId |-> a.routeId, routeParams |-> a.routeParams,
             storageNil |-> FALSE, storage |-> a.storage,
             routerNil |-> FALSE, router |-> a.router,
             id |-> IF a.panicked THEN "" ELSE a.routeId[item],
             err |-> IF a.panicked THEN "addRouter err" ELSE NoErr,
             key |-> a.key, rereg |-> a.rereg, escaped |-> FALSE]

\* AddRouter(router, params...): the state it leaves and what it returns. A panic
\* of addRouter is recovered and returned as an error, with the empty id.
AddRouterCall(item, ps, ids, params, nilTable, table, nilRouter, rt) ==
    IF Len(ps) <= 0
    THEN [routeId |-> ids, routeParams |-> params, storageNil |-> nilTable,
          storage |-> table, routerNil |-> nilRouter, router |-> rt,
          id |-> "", err |-> "need to specify HTTP method", key |-> "",
          rereg |-> FALSE, escaped |-> FALSE]
    ELSE IF item = NoRoute
    THEN [routeId |-> ids, routeParams |-> params, storageNil |-> nilTable,
          storage |-> table, routerNil |-> nilRouter, router |-> rt,
          id |-> "", err |-> "router can not nil", key |-> "",
          rereg |-> FALSE, escaped |-> FALSE]
    ELSE LET a == addRouter(ToUpper(ps[1]), item, ids, params, nilTable, table,
                            nilRouter, rt)
         IN [routeId |-> a.routeId, routeParams |-> a.routeParams,
             storageNil |-> FALSE, storage |-> a.storage,
             routerNil |-> FALSE, router |-> a.router,
             id |-> IF a.panicked THEN "" ELSE a.routeId[item],
             err |-> IF a.panicked THEN "addRouter err" ELSE NoErr,
             key |-> a.key, rereg |-> a.rereg, escaped |-> FALSE]

\* No other API call is in progress.
ApiFree == rs.pc = "idle"

\* AddRouter called by the endpoint's user
AddRouter(item, ps) ==
    /\ ApiFree
    /\ ops < MaxOps
    /\ ops' = ops + 1
    /\ LET a == AddRouterCall(item, ps, routeId, routeParams, storageNil, storage,
                              routerNil, router) IN
       /\ routeId' = a.routeId
       /\ routeParams' = a.routeParams
       /\ storageNil' = a.storageNil
       /\ storage' = a.storage
       /\ routerNil' = a.routerNil
       /\ router' = a.router
       /\ escaped' = IF a.escaped THEN "AddRouter" ELSE escaped
       /\ ret' = [op |-> "AddRouter", id |-> a.id, err |-> a.err, key |-> a.key,
                  route |-> item, nparams |-> Len(ps), rereg |-> a.rereg]
    /\ UNCHANGED <<outsideRest, routeWait, routeDisabled, started, serving, rs, resp, recovered>>

\* RemoveRouter deleting the entry, as deleteRouter does, instead of disabling it.
RemoveRouter_Delete(routerId) ==
    /\ ApiFree
    /\ ops < MaxOps
    /\ ops' = ops + 1
    /\ LET id == TrimSpace(routerId) IN
       IF ~storageNil
       THEN IF storage[id] # NoRoute /\ ~routeDisabled[storage[id]]
            THEN /\ storage' = [storage EXCEPT ![id] = NoRoute]
                 /\ ret' = [NoRet EXCEPT !.op = "RemoveRouter", !.key = id,
                                         !.route = storage[id]]
            ELSE /\ storage' = storage
                 /\ ret' = [NoRet EXCEPT !.op = "RemoveRouter", !.key = id,
                                         !.err = "not found"]
       ELSE /\ storage' = storage
            /\ ret' = [NoRet EXCEPT !.op = "RemoveRouter", !.key = id]
    /\ UNCHANGED <<outsideRest, routeWait, routeId, routeParams, routeDisabled, storageNil,
                   routerNil, router, started, serving, rs, resp, recovered, escaped>>

\* RemoveRouter(routerId): the route is disabled, never deleted
RemoveRouter(routerId) ==
    /\ ApiFree
    /\ ops < MaxOps
    /\ ops' = ops + 1
    /\ LET id == TrimSpace(routerId) IN
       IF ~storageNil
       THEN IF storage[id] # NoRoute /\ ~routeDisabled[storage[id]]
            THEN /\ routeDisabled' = [routeDisabled EXCEPT ![storage[id]] = TRUE]
                 /\ ret' = [NoRet EXCEPT !.op = "RemoveRouter", !.key = id,
                                         !.route = storage[id]]
            ELSE /\ routeDisabled' = routeDisabled
                 /\ ret' = [NoRet EXCEPT !.op = "RemoveRouter", !.key = id,
                                         !.err = "not found"]
       ELSE /\ routeDisabled' = routeDisabled
            /\ ret' = [NoRet EXCEPT !.op = "RemoveRouter", !.key = id]
    /\ UNCHANGED <<outsideRest, routeWait, routeId, routeParams, storageNil, storage, routerNil,
                   router, started, serving, rs, resp, recovered, escaped>>

\* The caller changes the wait policy of a route's destination (To.SetWait),
\* whether the route is registered or not.
SetWait(r, wait) ==
    /\ ApiFree
    /\ ops < MaxOps
    /\ routeWait[r] # wait
    /\ ops' = ops + 1
    /\ routeWait' = [routeWait EXCEPT ![r] = wait]
    /\ ret' = [NoRet EXCEPT !.op = "SetWait", !.route = r]
    /\ UNCHANGED <<outsideRest, routeId, routeParams, routeDisabled, storageNil,
                   storage, routerNil, router, started, serving, rs, resp, recovered,
                   escaped>>

\* Start() of an endpoint that is its own shared instance: initServer makes the
\* router when there is none, startServer listens unless already started.
Start ==
    /\ ApiFree
    /\ ops < MaxOps
    /\ ops' = ops + 1
    /\ routerNil' = FALSE
    /\ router' = IF routerNil THEN EmptyRouter ELSE router
    /\ IF started
       THEN /\ UNCHANGED <<started, serving>>
            /\ ret' = [NoRet EXCEPT !.op = "Start"]
       ELSE \E listen \in BOOLEAN :
               IF listen
               THEN /\ started' = TRUE
                    /\ serving' = TRUE
                    /\ ret' = [NoRet EXCEPT !.op = "Start"]
               ELSE /\ UNCHANGED <<started, serving>>
                    /\ ret' = [NoRet EXCEPT !.op = "Start", !.err = "listen"]
    /\ UNCHANGED <<outsideRest, routeWait, routeId, routeParams, routeDisabled, storageNil,
                   storage, rs, resp, recovered, escaped>>

\* Restart, lines 326-341: the server is shut down and a new router made
Restart ==
    /\ ApiFree
    /\ ops < MaxOps
    /\ ops' = ops + 1
    /\ serving' = FALSE
    /\ router' = IF routerNil THEN router ELSE EmptyRouter
    /\ rs' = [IdleRs EXCEPT !.pc = "snapshot",
                            !.pre = Enabled(storage, routeDisabled),
                            !.table = storage,
                            !.flags = {r \in Routes : routeDisabled[r]}]
    /\ ret' = [NoRet EXCEPT !.op = "Restart", !.err = "running"]
    /\ UNCHANGED <<outsideRest, routeWait, routeId, routeParams, routeDisabled, storageNil,
                   storage, routerNil, started, resp, recovered, escaped>>

\* Restart, lines 342-350: under the lock, the enabled routes are set aside
RestartSnapshot ==
    /\ rs.pc = "snapshot"
    /\ rs' = [rs EXCEPT !.pc = "reset",
                        !.old = Enabled(storage, routeDisabled),
                        !.todo = {id \in Ids : Enabled(storage, routeDisabled)[id] # NoRoute}]
    /\ UNCHANGED <<outsideRest, routeWait, routeId, routeParams, routeDisabled, storageNil,
                   storage, routerNil, router, started, serving, ret, resp,
                   recovered, escaped, ops>>

\* Restart, lines 352-353: a new, empty route table; started is cleared
RestartReset ==
    /\ rs.pc = "reset"
    /\ storage' = EmptyStorage
    /\ storageNil' = FALSE
    /\ started' = FALSE
    /\ rs' = [rs EXCEPT !.pc = "start"]
    /\ UNCHANGED <<outsideRest, routeWait, routeId, routeParams, routeDisabled, routerNil,
                   router, serving, ret, resp, recovered, escaped, ops>>

\* Restart, lines 355-357: Start; its error ends the restart
RestartStart ==
    /\ rs.pc = "start"
    /\ routerNil' = FALSE
    /\ router' = IF routerNil THEN EmptyRouter ELSE router
    /\ \E listen \in BOOLEAN :
          IF listen
          THEN /\ started' = TRUE
               /\ serving' = TRUE
               /\ rs' = [rs EXCEPT !.pc = "replay"]
               /\ ret' = ret
          ELSE /\ UNCHANGED <<started, serving>>
               /\ rs' = [rs EXCEPT !.pc = "returned"]
               /\ ret' = [ret EXCEPT !.err = "listen"]
    /\ UNCHANGED <<outsideRest, routeWait, routeId, routeParams, routeDisabled, storageNil,
                   storage, resp, recovered, escaped, ops>>

\* BaseEndpoint.HasRouter(id): the route table holds the id
HasRouter(id) == ~storageNil /\ storage[id] # NoRoute

\* Restart, lines 358-369: one route of oldRouter, in the map's order, is given
\* the GET method if it records none and is added again unless its id is there;
\* an error of AddRouter is logged and the loop goes on.
RestartReplay ==
    /\ rs.pc = "replay"
    /\ rs.todo # {}
    /\ \E id \in rs.todo :
          LET item == rs.old[id]
              params == IF routeParams[item] = NoParams
                        THEN [routeParams EXCEPT ![item] = "GET"] ELSE routeParams
          IN IF ~HasRouter(routeId[item])
             THEN LET a == AddRouterCall(item, <<params[item]>>, routeId, params,
                                         storageNil, storage, routerNil, router) IN
                  /\ rs' = [rs EXCEPT !.todo = @ \ {id},
                                      !.errs = IF a.err # NoErr THEN @ \cup {id} ELSE @]
                  /\ routeId' = a.routeId
                  /\ routeParams' = a.routeParams
                  /\ storageNil' = a.storageNil
                  /\ storage' = a.storage
                  /\ routerNil' = a.routerNil
                  /\ router' = a.router
                  /\ escaped' = IF a.escaped THEN "AddRouter" ELSE escaped
             ELSE /\ rs' = [rs EXCEPT !.todo = @ \ {id}]
                  /\ routeParams' = params
                  /\ UNCHANGED <<routeId, storageNil, storage, routerNil, router,
                                 escaped>>
    /\ UNCHANGED <<outsideRest, routeWait, routeDisabled, started, serving, ret, resp,
                   recovered, ops>>

\* Restart returning the error of a failed replay.
RestartDone_ReturnReplayErr ==
    /\ rs.pc = "replay"
    /\ rs.todo = {}
    /\ rs' = [rs EXCEPT !.pc = "returned"]
    /\ ret' = [ret EXCEPT !.err = IF rs.errs # {} THEN "replay" ELSE NoErr]
    /\ UNCHANGED <<outsideRest, routeWait, routeId, routeParams, routeDisabled, storageNil,
                   storage, routerNil, router, started, serving, resp, recovered,
                   escaped, ops>>

\* Restart, line 370: every route of oldRouter has had its turn
RestartDone ==
    /\ rs.pc = "replay"
    /\ rs.todo = {}
    /\ rs' = [rs EXCEPT !.pc = "returned"]
    /\ ret' = [ret EXCEPT !.err = NoErr]
    /\ UNCHANGED <<outsideRest, routeWait, routeId, routeParams, routeDisabled, storageNil,
                   storage, routerNil, router, started, serving, resp, recovered,
                   escaped, ops>>

\* The caller of Restart has the result and goes on.
RestartReturn ==
    /\ rs.pc = "returned"
    /\ rs' = IdleRs
    /\ UNCHANGED <<outsideRest, routeWait, routeId, routeParams, routeDisabled, storageNil,
                   storage, routerNil, router, started, serving, ret, resp,
                   recovered, escaped, ops>>

\* Close() of an endpoint that owns its router, lines 373-399: the server is
\* shut down, which fails when open connections outlast the 2 s given and then
\* ends the call; a new router is made; started is cleared and the base endpoint
\* destroyed, which leaves the route table as it is or empties it. No context is
\* cancelled: a request's context ends with its request, the background context
\* never.
Close ==
    /\ ApiFree
    /\ ops < MaxOps
    /\ ops' = ops + 1
    /\ serving' = FALSE
    /\ \E shutdownOk \in BOOLEAN, cleared \in BOOLEAN :
          IF serving /\ ~shutdownOk
          THEN /\ ~cleared
               /\ ret' = [NoRet EXCEPT !.op = "Close", !.err = "shutdown"]
               /\ UNCHANGED <<router, started, storage>>
          ELSE /\ shutdownOk
               /\ router' = IF routerNil THEN router ELSE EmptyRouter
               /\ started' = FALSE
               /\ storage' = IF cleared THEN EmptyStorage ELSE storage
               /\ ret' = [NoRet EXCEPT !.op = "Close"]
    /\ UNCHANGED <<outsideRest, routeWait, routeId, routeParams, routeDisabled, storageNil,
                   routerNil, rs, resp, recovered, escaped>>

\* handler without the look at the route's disabled flag.
handler_NoDisableCheck(h, method, path, panics, gone) ==
    [resp |-> [method |-> method, path |-> path, route |-> h.route,
               result |-> IF panics THEN "recovered" ELSE "processed",
               ctx |-> IF h.isWait THEN "request" ELSE "background",
                    gone |-> gone, cancelled |-> gone /\ h.isWait],
     recovered |-> panics, escaped |-> FALSE]

\* handler without the deferred recover: a panic of DoProcess leaves it.
handler_NoRecover(h, method, path, panics, gone) ==
    IF routeDisabled[h.route]
    THEN [resp |-> [method |-> method, path |-> path, route |-> h.route,
                    result |-> "notfound", ctx |-> "none", gone |-> gone,
                    cancelled |-> FALSE],
          recovered |-> FALSE, escaped |-> FALSE]
    ELSE [resp |-> [method |-> method, path |-> path, route |-> h.route,
                    result |-> IF panics THEN "panic" ELSE "processed",
                    ctx |-> IF h.isWait THEN "request" ELSE "background",
                    gone |-> gone, cancelled |-> gone /\ h.isWait],
          recovered |-> FALSE, escaped |-> panics]

\* handler choosing the context by the wait policy the route has at the request.
handler_CurrentWait(h, method, path, panics, gone) ==
    IF routeDisabled[h.route]
    THEN [resp |-> [method |-> method, path |-> path, route |-> h.route,
                    result |-> "notfound", ctx |-> "none", gone |-> gone,
                    cancelled |-> FALSE],
          recovered |-> FALSE, escaped |-> FALSE]
    ELSE [resp |-> [method |-> method, path |-> path, route |-> h.route,
                    result |-> IF panics THEN "recovered" ELSE "processed",
                    ctx |-> IF routeWait[h.route] THEN "request" ELSE "background",
                    gone |-> gone, cancelled |-> gone /\ routeWait[h.route]],
          recovered |-> panics, escaped |-> FALSE]

\* handler(router, isWait) run for one request: not found for a disabled route;
\* otherwise DoProcess under the request's context (waiting) or the background
\* context, a panic of it being recovered. The request's context is cancelled
\* when its caller goes away (gone); the background context never is.
handler(h, method, path, panics, gone) ==
    IF routeDisabled[h.route]
    THEN [resp |-> [method |-> method, path |-> path, route |-> h.route,
                    result |-> "notfound", ctx |-> "none", gone |-> gone,
                    cancelled |-> FALSE],
          recovered |-> FALSE, escaped |-> FALSE]
    ELSE [resp |-> [method |-> method, path |-> path, route |-> h.route,
                    result |-> IF panics THEN "recovered" ELSE "processed",
                    ctx |-> IF h.isWait THEN "request" ELSE "background",
                    gone |-> gone, cancelled |-> gone /\ h.isWait],
          recovered |-> panics, escaped |-> FALSE]

\* A request reaches the server: the router answers not found when no handler is
\* registered for the method and path, and runs the handler otherwise.
Request(method, path) ==
    /\ serving
    /\ ~routerNil
    /\ LET h == router[<<method, path>>] IN
       IF h.route = NoRoute
       THEN /\ resp' = [NoResp EXCEPT !.method = method, !.path = path,
                                      !.result = "notfound"]
            /\ UNCHANGED <<recovered, escaped, serving>>
       ELSE \E panics \in BOOLEAN, gone \in BOOLEAN :
               LET out == handler(h, method, path, panics, gone) IN
               /\ resp' = out.resp
               /\ recovered' = (recovered \/ out.recovered)
               /\ escaped' = IF out.escaped THEN "handler" ELSE escaped
               /\ serving' = (serving /\ ~out.escaped)
    /\ resp' # resp \/ recovered' # recovered
    /\ UNCHANGED <<outsideRest, routeWait, routeId, routeParams, routeDisabled, storageNil,
                   storage, routerNil, router, started, rs, ret, ops>>

RestNext ==
    \/ \E item \in Routes \cup {NoRoute}, ps \in ParamInputs : AddRouter(item, ps)
    \/ \E id \in Ids \cup {" r3 "} : RemoveRouter(id)
    \/ \E r \in Routes, wait \in BOOLEAN : SetWait(r, wait)
    \/ Start
    \/ Restart
    \/ RestartSnapshot
    \/ RestartReset
    \/ RestartStart
    \/ RestartReplay
    \/ RestartDone
    \/ RestartReturn
    \/ Close
    \/ \E method \in Methods, path \in Paths : Request(method, path)

----------------------------------------------------------------------------
(* Script filter node in a chain: components/filter/js_filter_node_test.go *)

\* The scripts the nodes of the test are configured with
Scripts == {"return msg.temperature > 50;", "return 1", "return a"}

\* The payloads of msgList
Payloads == {"AA", "{\"temperature\":60}", "{\"temperature\":40}"}

NoField == -1

\* msg.temperature of a payload: the number of a JSON payload that has the
\* field, NoField for a payload that is not JSON and so has none.
Temperature(data) ==
    CASE data = "{\"temperature\":60}" -> 60
      [] data = "{\"temperature\":40}" -> 40
      [] OTHER -> NoField

\* The script run on a message: a boolean, a value that is no boolean, or a
\* runtime error (a reference to a variable that is not defined).
Execute(script, data) ==
    CASE script = "return msg.temperature > 50;" ->
            [kind |-> "bool", b |-> Temperature(data) # NoField /\ Temperature(data) > 50]
      [] script = "return 1" -> [kind |-> "number", b |-> FALSE]
      [] OTHER -> [kind |-> "throw", b |-> FALSE]

\* JsFilterNode.OnMsg taking every value that is not undefined, false or 0 for true.
JsFilterOnMsg_Truthy(script, data) ==
    LET out == Execute(script, data) IN
    IF out.kind = "throw" THEN [relationType |-> "Failure", err |-> "ReferenceError"]
    ELSE IF out.kind = "number" \/ out.b THEN [relationType |-> "True", err |-> NoErr]
    ELSE [relationType |-> "False", err |-> NoErr]

\* JsFilterNode.OnMsg, as the callback of the test sees it: the relation told
\* and the error. True only for the boolean true; a script error is a failure.
JsFilterOnMsg(script, data) ==
    LET out == Execute(script, data) IN
    IF out.kind = "throw" THEN [relationType |-> "Failure", err |-> "ReferenceError"]
    ELSE IF out.kind = "bool" /\ out.b THEN [relationType |-> "True", err |-> NoErr]
    ELSE [relationType |-> "False", err |-> NoErr]

\* The chain: the filter A, then plain nodes that tell Success.
ChainNodes == {"A", "B", "C", "D"}

Relations == {"True", "False", "Success", "Failure"}

\* The chains of the model: A's outcomes lead to B and C, under the filter's own
\* relation names or under Success and Failure, with or without further edges.
ChainShapes ==
    { {<<"A", "True", "B">>, <<"A", "False", "C">>},
      {<<"A", "Success", "B">>, <<"A", "Failure", "C">>},
      {<<"A", "True", "B">>, <<"A", "False", "C">>, <<"A", "Failure", "D">>,
       <<"B", "Success", "D">>},
      {<<"A", "True", "B">>, <<"A", "True", "C">>, <<"C", "Failure", "D">>} }

NoMsg == [pc |-> "idle", data |-> "", err |-> NoErr]

ChainInit0 ==
    /\ jsScript \in Scripts
    /\ edges \in ChainShapes
    /\ cx = NoMsg
    /\ pending = {}
    /\ invoked = [n \in ChainNodes |-> 0]
    /\ fired = [n \in ChainNodes |-> "none"]
    /\ sent = 0

\* Fan-out: the targets of the edges that leave node n under the relation.
Targets(n, relation) == {e[3] : e \in {x \in edges : x[1] = n /\ x[2] = relation}}

\* A message enters the chain at its entry node A.
OnMsgEntry(data) ==
    /\ cx.pc \in {"idle", "done"}
    /\ sent < MaxMsgs
    /\ sent' = sent + 1
    /\ cx' = [pc |-> "dispatch", data |-> data, err |-> NoErr]
    /\ pending' = {"A"}
    /\ invoked' = [n \in ChainNodes |-> 0]
    /\ fired' = [n \in ChainNodes |-> "none"]
    /\ UNCHANGED <<outsideChain, jsScript, edges>>

\* The context runs the filter node and fans the message out along the edges
\* of the relation it told; a failure goes to the context's error slot.
ExecuteFilter ==
    /\ cx.pc = "dispatch"
    /\ "A" \in pending
    /\ LET r == JsFilterOnMsg(jsScript, cx.data) IN
       /\ invoked' = [invoked EXCEPT !["A"] = @ + 1]
       /\ fired' = [fired EXCEPT !["A"] = r.relationType]
       /\ cx' = [cx EXCEPT !.err = r.err]
       /\ pending' = (pending \ {"A"}) \cup Targets("A", r.relationType)
    /\ UNCHANGED <<outsideChain, jsScript, edges, sent>>

\* The context runs a plain node, which tells Success.
ExecuteLeaf(n) ==
    /\ cx.pc = "dispatch"
    /\ n \in pending \ {"A"}
    /\ invoked' = [invoked EXCEPT ![n] = @ + 1]
    /\ fired' = [fired EXCEPT ![n] = "Success"]
    /\ pending' = (pending \ {n}) \cup Targets(n, "Success")
    /\ UNCHANGED <<outsideChain, jsScript, edges, cx, sent>>

\* Every branch has ended: the waiting caller has the error slot.
ExecuteDone ==
    /\ cx.pc = "dispatch"
    /\ pending = {}
    /\ cx' = [cx EXCEPT !.pc = "done"]
    /\ UNCHANGED <<outsideChain, jsScript, edges, pending, invoked, fired, sent>>

ChainNext ==
    \/ \E data \in Payloads : OnMsgEntry(data)
    \/ ExecuteFilter
    \/ \E n \in ChainNodes : ExecuteLeaf(n)
    \/ ExecuteDone

----------------------------------------------------------------------------
(* MQTT client nodes and the SSH node, call by call:
   components/external/mqtt_client_node.go, components/external/ssh_node.go *)

\* Two MQTT client nodes whose Config.Server is the same, host:1883
MqttNodes == {"m1", "m2"}

Clients == 1..Cardinality(MqttNodes)

NewMqttNode == [state |-> "new", client |-> NoClient, held |-> NoClient]

NewSshNode == [state |-> "new", client |-> FALSE, cmd |-> ""]

NoLast == [op |-> "none", node |-> "", initNow |-> FALSE, err |-> NoErr,
           tells |-> <<>>, ran |-> FALSE, failed |-> FALSE, built |-> FALSE]

ExtInit0 ==
    /\ pooling \in BOOLEAN
    /\ pool = NoClient
    /\ mqn = [n \in MqttNodes |-> NewMqttNode]
    /\ conns = [c \in Clients |-> "none"]
    /\ ssh = NewSshNode
    /\ last = NoLast
    /\ calls = 0

\* The client mqtt.NewClient returns next
FreshClient == Cardinality({c \in Clients : conns[c] # "none"}) + 1

\* initClient of node n as one call: x.client if there is one, else
\* mqtt.NewClient, whose client is stored in x.client only on success.
initClient(n, ok) ==
    IF mqn[n].client # NoClient
    THEN [client |-> mqn[n].client, err |-> NoErr, ran |-> FALSE, stored |-> mqn[n].client]
    ELSE IF ok
    THEN [client |-> FreshClient, err |-> NoErr, ran |-> TRUE, stored |-> FreshClient]
    ELSE [client |-> NoClient, err |-> "connect", ran |-> TRUE, stored |-> NoClient]

\* SharedNode.Get of node n: the pooled instance of the server key when the key
\* is pooled and built, and the node's construction function otherwise.
SharedGet(n, ok) ==
    IF pooling /\ pool # NoClient
    THEN [client |-> pool, err |-> NoErr, ran |-> FALSE, stored |-> mqn[n].client]
    ELSE initClient(n, ok)

\* The state a Get of node n leaves
AfterGet(n, g) ==
    [mqn |-> [mqn EXCEPT ![n].client = g.stored],
     pool |-> IF pooling /\ g.err = NoErr THEN g.client ELSE pool,
     conns |-> IF g.ran /\ g.err = NoErr THEN [conns EXCEPT ![g.client] = "open"] ELSE conns]

\* SharedNode.Init(config, type, key, initNow, fn): construction is forced when
\* initNow is set, and its error is the error of Init.
SharedInit(n, initNow, ok) ==
    IF initNow THEN SharedGet(n, ok)
    ELSE [client |-> NoClient, err |-> NoErr, ran |-> FALSE, stored |-> mqn[n].client]

\* MqttClientNode.Init, lines 109-116: the error returned is the one of
\* Map2Struct; the error of SharedNode.Init is dropped.
MqttInitErr(cfgOk, sharedErr) ==
    IF ~cfgOk THEN "config" ELSE NoErr

\* MqttClientNode.Init(ruleConfig, configuration) with ruleConfig.NodeClientInitNow
MqttInit(n, cfgOk, initNow, ok) ==
    /\ calls < MaxCalls
    /\ mqn[n].state = "new"
    /\ calls' = calls + 1
    /\ IF ~cfgOk
       THEN /\ mqn' = [mqn EXCEPT ![n].state = "failed"]
            /\ last' = [NoLast EXCEPT !.op = "Init", !.node = n, !.initNow = initNow,
                                      !.err = MqttInitErr(cfgOk, NoErr),
                                      !.built = (pooling /\ pool # NoClient)]
            /\ UNCHANGED <<pool, conns>>
       ELSE LET g == SharedInit(n, initNow, ok)
                a == AfterGet(n, g) IN
            /\ mqn' = [a.mqn EXCEPT ![n].state = "ready"]
            /\ pool' = a.pool
            /\ conns' = a.conns
            /\ last' = [NoLast EXCEPT !.op = "Init", !.node = n, !.initNow = initNow,
                                      !.err = MqttInitErr(cfgOk, g.err),
                                      !.ran = g.ran, !.failed = (g.err # NoErr),
                                      !.built = (pooling /\ pool # NoClient)]
    /\ UNCHANGED <<outsideExt, pooling, ssh>>

\* The tell calls of MqttClientNode.OnMsg, lines 124-132
MqttTells(getErr, publishErr) ==
    IF getErr # NoErr THEN <<"Failure">>
    ELSE IF publishErr # NoErr THEN <<"Failure">>
    ELSE <<"Success">>

\* MqttClientNode.OnMsg: Get, then Publish, which fails on a closed client
MqttOnMsg(n, ok, pubOk) ==
    /\ calls < MaxCalls
    /\ mqn[n].state = "ready"
    /\ calls' = calls + 1
    /\ LET g == SharedGet(n, ok)
           a == AfterGet(n, g)
           publishErr == IF g.err = NoErr /\ (~pubOk \/ a.conns[g.client] # "open")
                         THEN "publish" ELSE NoErr IN
       /\ mqn' = [a.mqn EXCEPT ![n].held = g.client]
       /\ pool' = a.pool
       /\ conns' = a.conns
       /\ last' = [NoLast EXCEPT !.op = "OnMsg", !.node = n,
                                 !.err = IF g.err # NoErr THEN g.err ELSE publishErr,
                                 !.tells = MqttTells(g.err, publishErr),
                                 !.ran = g.ran, !.failed = (g.err # NoErr),
                                 !.built = (pooling /\ pool # NoClient)]
    /\ UNCHANGED <<outsideExt, pooling, ssh>>

\* MqttClientNode.Destroy, lines 136-144: x.client is closed when there is one
MqttDestroy(n) ==
    /\ calls < MaxCalls
    /\ mqn[n].state = "ready"
    /\ calls' = calls + 1
    /\ mqn' = [mqn EXCEPT ![n].state = "destroyed", ![n].held = NoClient]
    /\ conns' = IF mqn[n].client # NoClient
                THEN [conns EXCEPT ![mqn[n].client] = "closed"] ELSE conns
    /\ last' = [NoLast EXCEPT !.op = "Destroy", !.node = n]
    /\ UNCHANGED <<outsideExt, pooling, pool, ssh>>

\* SshNode.Init, lines 92-114: a configuration that does not decode, one with an
\* empty field, or ssh.Dial, which gives the client or an error
SshInit(cfg, cmd, dialOk) ==
    /\ calls < MaxCalls
    /\ ssh.state = "new"
    /\ calls' = calls + 1
    /\ ssh' = CASE cfg = "bad" -> [ssh EXCEPT !.state = "failed"]
                [] cfg = "empty" -> [ssh EXCEPT !.state = "failed", !.cmd = cmd]
                [] OTHER -> [state |-> IF dialOk THEN "ready" ELSE "failed",
                             client |-> dialOk, cmd |-> cmd]
    /\ last' = [NoLast EXCEPT !.op = "SshInit", !.node = "ssh",
                              !.err = CASE cfg = "bad" -> "config"
                                        [] cfg = "empty" -> "SshConfigEmptyErr"
                                        [] OTHER -> IF dialOk THEN NoErr ELSE "dial"]
    /\ UNCHANGED <<outsideExt, pooling, pool, mqn, conns>>

\* SshNode.OnMsg going on after it has told a failure, with no return.
SshTells_NoReturn(hasClient, cmd, sessionOk, cmdOk) ==
    (IF ~hasClient THEN <<"Failure">> ELSE <<>>)
    \o (IF cmd = "" THEN <<"Failure">> ELSE <<>>)
    \o (IF sessionOk THEN (IF cmdOk THEN <<"Success">> ELSE <<"Failure">>)
        ELSE <<"Failure">>)

\* The tell calls of SshNode.OnMsg, lines 117-152
SshTells(hasClient, cmd, sessionOk, cmdOk) ==
    IF ~hasClient THEN <<"Failure">>
    ELSE IF cmd = "" THEN <<"Failure">>
    ELSE IF sessionOk
    THEN (IF cmdOk THEN <<"Success">> ELSE <<"Failure">>)
    ELSE <<"Failure">>

\* SshNode.OnMsg on the node as Init left it, whatever Init returned
SshOnMsg(sessionOk, cmdOk) ==
    /\ calls < MaxCalls
    /\ calls' = calls + 1
    /\ last' = [NoLast EXCEPT !.op = "SshOnMsg", !.node = "ssh",
                              !.tells = SshTells(ssh.client, ssh.cmd, sessionOk, cmdOk),
                              !.ran = sessionOk, !.failed = ~cmdOk]
    /\ UNCHANGED <<outsideExt, pooling, pool, mqn, conns, ssh>>

ExtNext ==
    \/ \E n \in MqttNodes, cfgOk \in BOOLEAN, initNow \in BOOLEAN, ok \in BOOLEAN :
          MqttInit(n, cfgOk, initNow, ok)
    \/ \E n \in MqttNodes, ok \in BOOLEAN, pubOk \in BOOLEAN : MqttOnMsg(n, ok, pubOk)
    \/ \E n \in MqttNodes : MqttDestroy(n)
    \/ \E cfg \in {"bad", "empty", "ok"}, cmd \in {"", "ls"}, dialOk \in BOOLEAN :
          SshInit(cfg, cmd, dialOk)
    \/ \E sessionOk \in BOOLEAN, cmdOk \in BOOLEAN : SshOnMsg(sessionOk, cmdOk)

----------------------------------------------------------------------------
(* Node initialisation and the leaf wrapper's operations: engine/node.go *)

\* Node definitions with the fields the accessors read
InitDefs == [type : Types, cfg : Cfgs, ver : {0}, id : {"n1", "n2"}, debugMode : BOOLEAN]

NodeIds == {"n1", "n2", "sub"}

NoMade == [called |-> FALSE, chain |-> "nil", aspects |-> <<>>,
           def |-> [type |-> "registered", cfg |-> "good", ver |-> 0, id |-> "n1",
                    debugMode |-> FALSE],
           ctx |-> NilCtx, err |-> NoErr, created |-> NoNode, inited |-> FALSE,
           ran |-> 0, shape |-> "nil"]

NoAcc == [op |-> "none", arg |-> "", id |-> "", debug |-> FALSE, found |-> FALSE,
          err |-> NoErr, panic |-> FALSE]

InitInit0 ==
    /\ made = NoMade
    /\ acc = NoAcc

\* InitRuleNodeCtx(config, chainCtx, aspects, selfDefinition)
InitRuleNodeCtx(chain, aspects, def) ==
    /\ LET r == initRuleNodeCtx("config", chain, aspects, def, 1) IN
       made' = [called |-> TRUE, chain |-> chain, aspects |-> aspects, def |-> def,
                ctx |-> r.ctx, err |-> r.err, created |-> r.created,
                inited |-> r.inited, ran |-> r.ran, shape |-> r.shape]
    /\ acc' = NoAcc
    /\ UNCHANGED outsideInit

\* GetNodeId on the wrapper returned: it reads rn.SelfDefinition.Id, which
\* panics on a nil wrapper and on one with no definition.
GetNodeId ==
    /\ made.called
    /\ acc' = IF made.shape = "set"
              THEN [NoAcc EXCEPT !.op = "GetNodeId", !.id = made.ctx.SelfDefinition.id]
              ELSE [NoAcc EXCEPT !.op = "GetNodeId", !.panic = TRUE]
    /\ UNCHANGED <<outsideInit, made>>

\* IsDebugMode on the wrapper returned: it reads rn.SelfDefinition.DebugMode
IsDebugMode ==
    /\ made.called
    /\ acc' = IF made.shape = "set"
              THEN [NoAcc EXCEPT !.op = "IsDebugMode",
                                 !.debug = made.ctx.SelfDefinition.debugMode]
              ELSE [NoAcc EXCEPT !.op = "IsDebugMode", !.panic = TRUE]
    /\ UNCHANGED <<outsideInit, made>>

\* ReloadChild(id, def): not supported, whatever the arguments
ReloadChild(id, b) ==
    /\ made.called
    /\ acc' = [NoAcc EXCEPT !.op = "ReloadChild", !.arg = id,
                            !.err = "not support this func"]
    /\ acc' # acc
    /\ UNCHANGED <<outsideInit, made>>

\* GetNodeById(id): returns (nil, false), whatever the argument
GetNodeById(id) ==
    /\ made.called
    /\ acc' = [NoAcc EXCEPT !.op = "GetNodeById", !.arg = id, !.found = FALSE]
    /\ acc' # acc
    /\ UNCHANGED <<outsideInit, made>>

InitNext ==
    \/ \E chain \in {"nil", "chain"}, aspects \in AspectLists, def \in InitDefs :
          InitRuleNodeCtx(chain, aspects, def)
    \/ GetNodeId
    \/ IsDebugMode
    \/ \E id \in NodeIds, b \in Bytes : ReloadChild(id, b)
    \/ \E id \in NodeIds : GetNodeById(id)

----------------------------------------------------------------------------
(* Variable substitution at node initialisation: engine/node.go *)

\* The names a placeholder may carry and the keys of a node's configuration
Names == {"a"}
CfgKeys == {"server", "opts"}

\* A string is a run of pieces: literal text, or a placeholder ${scope.name}
Lit(text) == [scope |-> "lit", name |-> text]
Pieces == {Lit("x")} \cup [scope : {"global", "vars", "secrets"}, name : Names]
Strings == UNION {[1..n -> Pieces] : n \in 1..MaxPieces}

\* A configuration value: a string, or something else (a number, a nested map)
\* whose content is kept as it is written
Values == [kind : {"string", "other"}, v : Strings]

\* A map[string]string: name -> value, Missing where the map has no such key
Missing == ""
NilMap == [n \in Names |-> Missing]
Refs == {"vars", "secrets", "copy1", "copy2"}
NilRef == "nil"

NoPv == [called |-> FALSE, result |-> [k \in CfgKeys |-> [kind |-> "other", v |-> <<Lit("x")>>]],
         vars |-> NilRef, secrets |-> NilRef,
         given |-> [k \in CfgKeys |-> [kind |-> "other", v |-> <<Lit("x")>>]],
         varsAt |-> NilMap, secretsAt |-> NilMap]

\* The chain's variables and secrets as the chain was loaded; no copy made.
Heap0 == [r \in Refs |-> CASE r = "vars" -> [n \in Names |-> "V"]
                          [] r = "secrets" -> [n \in Names |-> "S"]
                          [] OTHER -> NilMap]

ProcInit0 ==
    /\ properties \in {NilMap, [n \in Names |-> "G"]}
    /\ pvChain \in {"nil", "chain"}
    /\ configuration \in [CfgKeys -> Values]
    /\ heap = Heap0
    /\ pv = NoPv
    /\ sets = 0

\* str.ExecuteTemplate(strV, env): every placeholder env has a value for is
\* replaced by the value, the others are left as written.
ExecuteTemplate(strV, env) ==
    [i \in 1..Len(strV) |->
        IF /\ strV[i].scope \in DOMAIN env
           /\ env[strV[i].scope][strV[i].name] # Missing
        THEN Lit(env[strV[i].scope][strV[i].name])
        ELSE strV[i]]

\* copyMap(inputMap): a new map with the entries of inputMap
copyMap(mem, from, to) ==
    [ref |-> to, heap |-> [mem EXCEPT ![to] = [n \in Names |-> mem[from][n]]]]

\* processVariables(config, chainCtx, configuration): the new map it returns
\* and the memory it leaves. env holds the global and the vars scope only.
processVariables(props, chain, cfg, mem) ==
    LET globalEnv == props
        c1 == copyMap(mem, "vars", "copy1")
        c2 == copyMap(c1.heap, "secrets", "copy2")
        varsEnv == IF chain # "nil" THEN c1.ref ELSE NilRef
        decryptSecrets == IF chain # "nil" THEN c2.ref ELSE NilRef
        mem2 == IF chain # "nil" THEN c2.heap ELSE mem
        env == [sc \in {"global", "vars"} |->
                   IF sc = "global" THEN globalEnv
                   ELSE IF varsEnv = NilRef THEN NilMap ELSE mem2[varsEnv]]
    IN [result |-> [key \in CfgKeys |->
                       IF cfg[key].kind = "string"
                       THEN [kind |-> "string", v |-> ExecuteTemplate(cfg[key].v, env)]
                       ELSE cfg[key]],
        vars |-> varsEnv,
        secrets |-> decryptSecrets,
        heap |-> mem2]

\* initRuleNodeCtx, lines 75-78: the node's configuration is processed; the
\* definition's map is read only.
ProcessVariables ==
    /\ ~pv.called
    /\ LET r == processVariables(properties, pvChain, configuration, heap) IN
       /\ pv' = [called |-> TRUE, result |-> r.result, vars |-> r.vars,
                 secrets |-> r.secrets, given |-> configuration,
                 varsAt |-> IF pvChain = "nil" THEN NilMap ELSE heap["vars"],
                 secretsAt |-> IF pvChain = "nil" THEN NilMap ELSE heap["secrets"]]
       /\ heap' = r.heap
    /\ UNCHANGED <<outsideProc, properties, pvChain, configuration, sets>>

\* The chain's variables are changed, as a reload of the chain does.
SetVar(n, val) ==
    /\ pvChain = "chain"
    /\ sets < MaxSets
    /\ sets' = sets + 1
    /\ heap' = [heap EXCEPT !["vars"][n] = val]
    /\ UNCHANGED <<outsideProc, properties, pvChain, configuration, pv>>

ProcNext ==
    \/ ProcessVariables
    \/ \E n \in Names, val \in {"W", Missing} : SetVar(n, val)

----------------------------------------------------------------------------
(* HTTP endpoint, goroutine by goroutine: endpoint/rest (src/unnamed/part_000) *)

\* Route 0 is registered before any goroutine starts; routes 1..MaxRouters are
\* the ones addRouter is called with. Every route has its own id and path and
\* none is disabled.
OldRoute == 0
NewRoutes == 1..MaxRouters

\* A route another endpoint has registered on the shared instance
OtherRoute == -1

IdleGor == [pc |-> "idle", routers |-> <<>>, i |-> 0, old |-> {}, todo |-> {}, err |-> NoErr]

NoShared == [RouterStorage |-> {}, router |-> {}]

Free == [w |-> "none", r |-> {}]

\* An endpoint started with one route: on its own router when it owns one, on
\* the shared instance's router when it delegates.
ConcInit0 ==
    /\ instanceId \in {"", "pool"}
    /\ tbl = {OldRoute}
    /\ surf = IF instanceId = "" THEN {OldRoute} ELSE {}
    /\ sharedInst = IF instanceId = "" THEN NoShared
                    ELSE [RouterStorage |-> {OldRoute, OtherRoute},
                          router |-> {OldRoute, OtherRoute}]
    /\ mutex = Free
    /\ gor = [g \in {"add", "restart", "close"} |-> IdleGor]
    /\ ghost = [bare |-> {}, race |-> {}]

\* router.Handle for a route: a panic when the route's method and path have a
\* handler already
HandleRoute(rt, item) ==
    IF item \in rt THEN [router |-> rt, panicked |-> TRUE]
    ELSE [router |-> rt \cup {item}, panicked |-> FALSE]

\* Restart() of the shared instance, which owns its router: its enabled routes
\* are replayed on a new router, or lost with the table when Start fails.
SharedRestart(sh, listen) ==
    IF listen THEN [RouterStorage |-> sh.RouterStorage, router |-> sh.RouterStorage]
    ELSE NoShared

\* addRouter(method, routers...) is called with n routes, lines 472-473
addRouterCall(n) ==
    /\ gor["add"].pc = "idle"
    /\ gor' = [gor EXCEPT !["add"].pc = "lock", !["add"].routers = [k \in 1..n |-> k],
                          !["add"].i = 1]
    /\ UNCHANGED <<outsideConc, instanceId, tbl, surf, sharedInst, mutex, ghost>>

\* addRouter, lines 475-480: rest.Lock()
addRouterLock ==
    /\ gor["add"].pc = "lock"
    /\ mutex = Free
    /\ mutex' = [mutex EXCEPT !.w = "add"]
    /\ gor' = [gor EXCEPT !["add"].pc = "store"]
    /\ UNCHANGED <<outsideConc, instanceId, tbl, surf, sharedInst, ghost>>

\* addRouter, lines 481-488: the item gets its id and params and is stored
addRouterStore ==
    /\ gor["add"].pc = "store"
    /\ tbl' = tbl \cup {gor["add"].routers[gor["add"].i]}
    /\ gor' = [gor EXCEPT !["add"].pc = "handle"]
    /\ UNCHANGED <<outsideConc, instanceId, surf, sharedInst, mutex, ghost>>

\* addRouter, lines 489-508: a delegating endpoint hands the item to the shared
\* instance's addRouter and returns what that returns; an owning endpoint
\* registers the handler and goes on with the next item.
addRouterHandle ==
    /\ gor["add"].pc = "handle"
    /\ LET item == gor["add"].routers[gor["add"].i] IN
       IF instanceId # ""
       THEN \E getOk \in BOOLEAN :
               IF getOk
               THEN LET reg == HandleRoute(sharedInst.router, item) IN
                    /\ sharedInst' = [RouterStorage |-> sharedInst.RouterStorage \cup {item},
                                      router |-> reg.router]
                    /\ gor' = [gor EXCEPT !["add"].pc = "unlock",
                                          !["add"].err = IF reg.panicked THEN "panic" ELSE NoErr]
                    /\ surf' = surf
               ELSE /\ gor' = [gor EXCEPT !["add"].pc = "unlock", !["add"].err = "get"]
                    /\ UNCHANGED <<sharedInst, surf>>
       ELSE LET reg == HandleRoute(surf, item) IN
            /\ surf' = reg.router
            /\ sharedInst' = sharedInst
            /\ gor' = IF reg.panicked
                      THEN [gor EXCEPT !["add"].pc = "unlock", !["add"].err = "panic"]
                      ELSE IF gor["add"].i < Len(gor["add"].routers)
                      THEN [gor EXCEPT !["add"].pc = "store", !["add"].i = @ + 1]
                      ELSE [gor EXCEPT !["add"].pc = "unlock"]
    /\ UNCHANGED <<outsideConc, instanceId, tbl, mutex, ghost>>

\* addRouter, line 476: the deferred rest.Unlock(), and the return
addRouterUnlock ==
    /\ gor["add"].pc = "unlock"
    /\ mutex' = Free
    /\ gor' = [gor EXCEPT !["add"].pc = "returned"]
    /\ UNCHANGED <<outsideConc, instanceId, tbl, surf, sharedInst, ghost>>

\* Restart, lines 326-341: the server is shut down; a delegating endpoint
\* returns what the shared instance's Restart returns; an owning one makes a
\* new router.
RestartShutdown ==
    /\ gor["restart"].pc = "idle"
    /\ IF instanceId # ""
       THEN \E getOk \in BOOLEAN, listen \in BOOLEAN :
               /\ sharedInst' = IF getOk THEN SharedRestart(sharedInst, listen) ELSE sharedInst
               /\ gor' = [gor EXCEPT !["restart"].pc = "returned",
                                     !["restart"].err = IF ~getOk THEN "get"
                                                        ELSE IF ~listen THEN "listen" ELSE NoErr]
               /\ surf' = surf
       ELSE /\ surf' = {}
            /\ gor' = [gor EXCEPT !["restart"].pc = "copy"]
            /\ sharedInst' = sharedInst
    /\ UNCHANGED <<outsideConc, instanceId, tbl, mutex, ghost>>

\* Restart, lines 342-350: with the mutex held, the routes not disabled are
\* copied to oldRouter
RestartCopy ==
    /\ gor["restart"].pc = "copy"
    /\ mutex = Free
    /\ gor' = [gor EXCEPT !["restart"].pc = "reset", !["restart"].old = tbl]
    /\ UNCHANGED <<outsideConc, instanceId, tbl, surf, sharedInst, mutex, ghost>>

\* Restart, lines 352-353: rest.RouterStorage is replaced by an empty map after
\* the mutex was released, whoever holds it now.
RestartMake ==
    /\ gor["restart"].pc = "reset"
    /\ tbl' = {}
    /\ ghost' = [bare |-> ghost.bare \cup {"Restart:352"},
                 race |-> IF mutex # Free THEN ghost.race \cup {"Restart:352"}
                          ELSE ghost.race]
    /\ gor' = [gor EXCEPT !["restart"].pc = "start"]
    /\ UNCHANGED <<outsideConc, instanceId, surf, sharedInst, mutex>>

\* Restart, lines 355-357: Start, whose error ends the restart
RestartListen ==
    /\ gor["restart"].pc = "start"
    /\ \E listen \in BOOLEAN :
          gor' = IF listen
                 THEN [gor EXCEPT !["restart"].pc = "replay",
                                  !["restart"].todo = gor["restart"].old]
                 ELSE [gor EXCEPT !["restart"].pc = "returned", !["restart"].err = "listen"]
    /\ UNCHANGED <<outsideConc, instanceId, tbl, surf, sharedInst, mutex, ghost>>

\* Restart, lines 358-369: a route of oldRouter that the table does not hold is
\* added again by AddRouter, which takes the mutex for the whole of addRouter and
\* turns a panic of router.Handle into an error that is logged.
RestartAddRouter ==
    /\ gor["restart"].pc = "replay"
    /\ \E item \in gor["restart"].todo :
          /\ gor' = [gor EXCEPT !["restart"].todo = @ \ {item}]
          /\ IF item \notin tbl
             THEN /\ mutex = Free
                  /\ tbl' = tbl \cup {item}
                  /\ surf' = HandleRoute(surf, item).router
             ELSE UNCHANGED <<tbl, surf>>
    /\ UNCHANGED <<outsideConc, instanceId, sharedInst, mutex, ghost>>

\* Restart, line 370
RestartNil ==
    /\ gor["restart"].pc = "replay"
    /\ gor["restart"].todo = {}
    /\ gor' = [gor EXCEPT !["restart"].pc = "returned"]
    /\ UNCHANGED <<outsideConc, instanceId, tbl, surf, sharedInst, mutex, ghost>>

\* Close, lines 374-386 and 396-398: the server is shut down, an error of which
\* ends the call; a new router is made if there is one; an owning endpoint
\* clears started and returns.
CloseShutdown ==
    /\ gor["close"].pc = "idle"
    /\ \E shutdownOk \in BOOLEAN, getOk \in BOOLEAN :
          IF ~shutdownOk
          THEN /\ getOk
               /\ gor' = [gor EXCEPT !["close"].pc = "returned", !["close"].err = "shutdown"]
               /\ surf' = surf
          ELSE /\ surf' = {}
               /\ instanceId = "" => getOk
               /\ gor' = IF instanceId # "" /\ getOk
                         THEN [gor EXCEPT !["close"].pc = "rlock"]
                         ELSE [gor EXCEPT !["close"].pc = "returned"]
    /\ UNCHANGED <<outsideConc, instanceId, tbl, sharedInst, mutex, ghost>>

\* Close, line 386: rest.RLock()
CloseRLock ==
    /\ gor["close"].pc = "rlock"
    /\ mutex.w = "none"
    /\ mutex' = [mutex EXCEPT !.r = @ \cup {"close"}]
    /\ gor' = [gor EXCEPT !["close"].pc = "delete"]
    /\ UNCHANGED <<outsideConc, instanceId, tbl, surf, sharedInst, ghost>>

\* Close, lines 387-393: every key of the table is deleted from the shared
\* instance, which is then restarted; the deferred RUnlock, and the return.
\* old keeps the keys the loop ranged over.
CloseDelete ==
    /\ gor["close"].pc = "delete"
    /\ \E listen \in BOOLEAN :
          /\ sharedInst' = SharedRestart([sharedInst EXCEPT !.RouterStorage = @ \ tbl], listen)
          /\ gor' = [gor EXCEPT !["close"].pc = "returned",
                                !["close"].old = tbl,
                                !["close"].err = IF listen THEN NoErr ELSE "listen"]
    /\ mutex' = [mutex EXCEPT !.r = @ \ {"close"}]
    /\ UNCHANGED <<outsideConc, instanceId, tbl, surf, ghost>>

ConcNext ==
    \/ \E n \in 1..MaxRouters : addRouterCall(n)
    \/ addRouterLock
    \/ addRouterStore
    \/ addRouterHandle
    \/ addRouterUnlock
    \/ RestartShutdown
    \/ RestartCopy
    \/ RestartMake
    \/ RestartListen
    \/ RestartAddRouter
    \/ RestartNil
    \/ CloseShutdown
    \/ CloseRLock
    \/ CloseDelete

----------------------------------------------------------------------------
(* Specifications *)

\* One initial state of the node wrapper, for the specifications of the other parts.
NodeQuiet ==
    /\ NodeInit0
    /\ chainCtx = "chain"
    /\ chainAspects = <<>>
    /\ rn.aspects = <<>>
    /\ rn.SelfDefinition = [type |-> "registered", cfg |-> "good", ver |-> 0]

\* One initial state of the MQTT client node, the only one it has.
MqttQuiet == MqttInit0

\* One initial state of the endpoint taken goroutine by goroutine.
ConcQuiet == ConcInit0 /\ instanceId = ""

\* One initial state of the variable substitution.
ProcQuiet ==
    /\ properties = NilMap
    /\ pvChain = "nil"
    /\ configuration = [k \in CfgKeys |-> [kind |-> "other", v |-> <<Lit("x")>>]]
    /\ heap = Heap0
    /\ pv = NoPv
    /\ sets = 0

\* One initial state of the chain, for the specifications of the other parts.
ChainQuiet ==
    /\ ChainInit0
    /\ jsScript = "return msg.temperature > 50;"
    /\ edges = {<<"A", "True", "B">>, <<"A", "False", "C">>}

\* One initial state of the nodes taken call by call.
ExtQuiet == ExtInit0 /\ ~pooling

NodeSpecInit == NodeInit0 /\ MqttQuiet /\ RestInit0 /\ ChainQuiet /\ ExtQuiet /\ InitInit0 /\ ProcQuiet /\ ConcQuiet

NodeSpec == NodeSpecInit /\ [][NodeNext]_vars

MqttSpecInit == NodeQuiet /\ MqttInit0 /\ RestInit0 /\ ChainQuiet /\ ExtQuiet /\ InitInit0 /\ ProcQuiet /\ ConcQuiet

MqttSpec == MqttSpecInit /\ [][MqttNext]_vars

RestSpecInit == NodeQuiet /\ MqttQuiet /\ RestInit0 /\ ChainQuiet /\ ExtQuiet /\ InitInit0 /\ ProcQuiet /\ ConcQuiet

RestSpec == RestSpecInit /\ [][RestNext]_vars

ChainSpecInit == NodeQuiet /\ MqttQuiet /\ RestInit0 /\ ChainInit0 /\ ExtQuiet /\ InitInit0 /\ ProcQuiet /\ ConcQuiet

ChainSpec == ChainSpecInit /\ [][ChainNext]_vars

ExtSpecInit == NodeQuiet /\ MqttQuiet /\ RestInit0 /\ ChainQuiet /\ ExtInit0 /\ InitInit0 /\ ProcQuiet /\ ConcQuiet

ExtSpec == ExtSpecInit /\ [][ExtNext]_vars

InitSpecInit == NodeQuiet /\ MqttQuiet /\ RestInit0 /\ ChainQuiet /\ ExtQuiet /\ InitInit0 /\ ProcQuiet /\ ConcQuiet

InitSpec == InitSpecInit /\ [][InitNext]_vars

ProcSpecInit == NodeQuiet /\ MqttQuiet /\ RestInit0 /\ ChainQuiet /\ ExtQuiet /\ InitInit0 /\ ProcInit0 /\ ConcQuiet

ProcSpec == ProcSpecInit /\ [][ProcNext]_vars

ConcSpecInit == NodeQuiet /\ MqttQuiet /\ RestInit0 /\ ChainQuiet /\ ExtQuiet /\ InitInit0 /\ ProcQuiet /\ ConcInit0

ConcSpec == ConcSpecInit /\ [][ConcNext]_vars

----------------------------------------------------------------------------
(* Claims *)

\* C1: a reload that returns an error (the bytes do not decode, a before-init
\* aspect rejects, the type is unregistered, the component's Init fails) leaves
\* the wrapper's instance, definition, engine config and aspects as they were
\* when it was called, and has called Destroy on no instance.
C1_ReloadAllOrNothing ==
    (rl.pc = "returned" /\ rl.err # NoErr) =>
        /\ rn = pre.rn
        /\ \A i \in Insts : inst[i].destroys = pre.inst[i].destroys

\* A second reload failed in the component's Init, after a first one succeeded.
C1_Witness ==
    /\ rl.pc = "returned"
    /\ rl.err = "initfail"
    /\ reloads = 2
    /\ rn.Node = 2

\* C2: a concurrent reader sees the instance with the definition and the
\* aspects it was initialised with, never an instance already destroyed; and
\* once a reload has returned success the wrapper holds the new instance and
\* the new definition.
C2_ReloadAtomic ==
    /\ ~obs.destroyed
    /\ inst[obs.Node].def = obs.def
    /\ inst[obs.Node].aspects = obs.aspects
    /\ (rl.pc = "returned" /\ rl.err = NoErr) =>
          (rn.Node = rl.ctx.Node /\ rn.SelfDefinition = rl.def)

\* C3: concurrent Get calls on one MQTT client node construct at most one
\* client; when no construction fails mqtt.NewClient is invoked exactly once,
\* and every caller that got a client got the one stored.
C3_OneConstruction ==
    /\ newClientCalls - failures <= 1
    /\ \A t \in Callers :
          (mq[t].pc = "returned" /\ mq[t].err = NoErr) =>
              /\ mq[t].got # NoClient
              /\ mq[t].got = client
              /\ failures = 0 => newClientCalls = 1

\* Every caller has its client, one of them having found the lock taken.
C3_Witness ==
    /\ \A t \in Callers : mq[t].pc = "returned" /\ mq[t].got = 1
    /\ \E t \in Callers : mq[t].waited
    /\ newClientCalls = 1

\* The path a route is registered under, and the route table with the surface.
PathOf(r) == convertPathParams(TrimSpace(From(r)))

RouteState == <<routeId, routeParams, routeDisabled, storageNil, storage, routerNil,
                router>>

\* C4: when Restart has returned no error, the route table holds exactly the
\* routes that were enabled when it was called, none of them disabled, and the
\* new router holds exactly these routes, each under its recorded method and
\* its path.
C4_RestartReplaysEnabled ==
    (rs.pc = "returned" /\ ret.err = NoErr) =>
        /\ storage = rs.pre
        /\ \A id \in Ids : storage[id] # NoRoute => ~routeDisabled[storage[id]]
        /\ \A id \in Ids :
              rs.pre[id] # NoRoute =>
                  router[<<routeParams[rs.pre[id]], PathOf(rs.pre[id])>>].route = rs.pre[id]
        /\ \A k \in Methods \X Paths :
              router[k].route # NoRoute =>
                  /\ \E id \in Ids : rs.pre[id] = router[k].route
                  /\ k = <<routeParams[router[k].route], PathOf(router[k].route)>>

\* C5: a successful RemoveRouter leaves the route table's ids and entries as
\* they were and changes nothing but the disabled flag of the entry the id
\* names, which goes from enabled to disabled.
C5_RemoveOnlyDisables ==
    [][(ret'.op = "RemoveRouter" /\ ops' = ops + 1 /\ ret'.err = NoErr) =>
          /\ storage' = storage
          /\ storageNil' = storageNil
          /\ routeId' = routeId
          /\ routeParams' = routeParams
          /\ router' = router
          /\ \A r \in Routes :
                (storageNil \/ r # storage[ret'.key]) => routeDisabled'[r] = routeDisabled[r]
          /\ ~storageNil =>
                /\ storage[ret'.key] # NoRoute
                /\ ~routeDisabled[storage[ret'.key]]
                /\ routeDisabled'[storage[ret'.key]]]_vars

\* A route was removed from a table that holds another, enabled, route.
C5_Witness ==
    /\ ret.op = "RemoveRouter"
    /\ ret.err = NoErr
    /\ ret.route # NoRoute
    /\ storage[ret.key] = ret.route
    /\ routeDisabled[ret.route]
    /\ \E id \in Ids : storage[id] # NoRoute /\ ~routeDisabled[storage[id]]

\* C6: RemoveRouter for an id that names no enabled route (a disabled one, one
\* never registered, any id on an endpoint with no route added yet) returns an
\* error and changes nothing.
C6_RemoveNotFound ==
    [][(/\ ret'.op = "RemoveRouter"
        /\ ops' = ops + 1
        /\ \/ storageNil
           \/ storage[ret'.key] = NoRoute
           \/ routeDisabled[storage[ret'.key]]) =>
          /\ ret'.err # NoErr
          /\ RouteState' = RouteState]_vars

C8_AddRouterRejects ==
    [][(/\ ret'.op = "AddRouter"
        /\ ops' = ops + 1
        /\ (ret'.nparams = 0 \/ ret'.route = NoRoute)) =>
          /\ ret'.id = ""
          /\ ret'.err # NoErr
          /\ RouteState' = RouteState]_vars

\* AddRouter was refused for want of a method, on an endpoint that has routes.
C8_Witness ==
    /\ ret.op = "AddRouter"
    /\ ret.nparams = 0
    /\ ret.route # NoRoute
    /\ ret.err = "need to specify HTTP method"
    /\ \E id \in Ids : storage[id] # NoRoute

\* C9: AddRouter for an id the route table already holds succeeds, leaves the
\* passed route as the table's entry for the id, and leaves the router serving
\* the route's method and path with the passed route.
C9_ReregisterReplaces ==
    (ret.op = "AddRouter" /\ ret.rereg) =>
        /\ ret.err = NoErr
        /\ storage[ret.key] = ret.route
        /\ router[<<routeParams[ret.route], PathOf(ret.route)>>].route = ret.route

\* C10: no panic leaves a handler or AddRouter; a request whose processing
\* panicked leaves the server serving and the routes as they were; AddRouter
\* for a method and path the router already serves, where router.Handle
\* panics, returns an error and the empty id.
C10_PanicsRecovered ==
    [][/\ escaped' = "none"
       /\ (resp' # resp /\ resp'.result \notin {"notfound", "processed"}) =>
              /\ resp'.result = "recovered"
              /\ serving'
              /\ RouteState' = RouteState
       /\ (/\ ret'.op = "AddRouter"
           /\ ops' = ops + 1
           /\ ret'.nparams > 0
           /\ ret'.route # NoRoute
           /\ ~routerNil
           /\ router[<<routeParams'[ret'.route], PathOf(ret'.route)>>].route # NoRoute) =>
              /\ ret'.err # NoErr
              /\ ret'.id = ""]_vars

\* A request was processed after an earlier one panicked, and the last
\* AddRouter returned the error of a recovered panic.
C10_Witness ==
    /\ recovered
    /\ resp.result = "processed"
    /\ serving
    /\ ret.op = "AddRouter"
    /\ ret.err = "addRouter err"

\* C11: a handler is registered with the wait policy its route has at that
\* moment; a request it processes runs under the request's context when that
\* policy was waiting, and is then cancelled exactly when the caller goes away,
\* and under the background context, never cancelled, when it was fire and
\* forget, whatever the route's policy has become since.
C11_WaitPolicy ==
    [][/\ \A k \in Methods \X Paths :
              (router'[k] # router[k] /\ router'[k].route # NoRoute) =>
                  router'[k].isWait = routeWait[router'[k].route]
       /\ (resp' # resp /\ resp'.result \in {"processed", "recovered"}) =>
              LET h == router[<<resp'.method, resp'.path>>] IN
              /\ resp'.ctx = IF h.isWait THEN "request" ELSE "background"
              /\ h.isWait => (resp'.cancelled <=> resp'.gone)
              /\ ~h.isWait => ~resp'.cancelled]_vars

\* A request to a route registered as waiting was cancelled with its caller,
\* after the route's policy had been changed to fire and forget.
C11_Witness ==
    /\ resp.result = "processed"
    /\ resp.ctx = "request"
    /\ resp.gone
    /\ resp.cancelled
    /\ ~routeWait[resp.route]
    /\ router[<<resp.method, resp.path>>].route = resp.route

\* The nodes whose OnMsg ran for the message
Reached == {n \in ChainNodes : invoked[n] > 0}

\* C12: a node other than the entry runs only when an edge labelled with the
\* relation its source told leads to it, and when the execution has ended every
\* such edge has been followed; in the chain where the filter's two outcomes
\* lead to B and to C, {"temperature":60} reaches only B, {"temperature":40}
\* only C, and "AA" reaches neither and leaves an error for the waiting caller.
C12_RelationRouting ==
    /\ \A n \in Reached \ {"A"} :
          \E e \in edges : e[3] = n /\ e[1] \in Reached /\ fired[e[1]] = e[2]
    /\ cx.pc = "done" =>
          \A e \in edges : (e[1] \in Reached /\ fired[e[1]] = e[2]) => e[3] \in Reached
    /\ (/\ cx.pc = "done"
        /\ jsScript = "return msg.temperature > 50;"
        /\ edges = {<<"A", "True", "B">>, <<"A", "False", "C">>}) =>
          /\ cx.data = "{\"temperature\":60}" => Reached = {"A", "B"}
          /\ cx.data = "{\"temperature\":40}" => Reached = {"A", "C"}
          /\ cx.data = "AA" => (Reached = {"A"} /\ cx.err # NoErr)

\* C13: once the filter node has run, it has told True exactly when the script
\* gave the boolean true (the temperature script on {"temperature":60}) and
\* False otherwise, with no error: for the temperature script on "AA" and on
\* {"temperature":40} and for the script that returns 1; for the script that
\* refers to an undefined variable the callback has a non-nil error.
C13_FilterRelation ==
    fired["A"] # "none" =>
        IF jsScript = "return a"
        THEN cx.err # NoErr
        ELSE /\ cx.err = NoErr
             /\ fired["A"] = IF /\ jsScript = "return msg.temperature > 50;"
                                /\ cx.data = "{\"temperature\":60}"
                             THEN "True" ELSE "False"

\* The script that returns 1 has told False, and the message went that way.
C13_Witness ==
    /\ cx.pc = "done"
    /\ jsScript = "return 1"
    /\ fired["A"] = "False"
    /\ cx.data = "{\"temperature\":60}"
    /\ "C" \in Reached

\* C14: every OnMsg of the SSH node and of an MQTT client node has made exactly
\* one tell call, a TellSuccess or a TellFailure, whichever path it took: no
\* client, empty command, no session, failed command, failed Get, failed
\* publish, success; and it told success only when nothing failed.
C14_TellExactlyOnce ==
    last.op \in {"OnMsg", "SshOnMsg"} =>
        /\ Len(last.tells) = 1
        /\ last.tells[1] \in {"Success", "Failure"}
        /\ (last.op = "OnMsg" /\ last.err # NoErr) => last.tells[1] = "Failure"
        /\ (last.op = "SshOnMsg" /\ (~ssh.client \/ ssh.cmd = "" \/ ~last.ran \/ last.failed)) =>
              last.tells[1] = "Failure"

\* The SSH node, with neither client nor command, has told its one failure, and
\* an MQTT client node has been through Init and OnMsg.
C14_Witness ==
    /\ last.op = "SshOnMsg"
    /\ ~ssh.client
    /\ ssh.cmd = ""
    /\ ssh.state = "failed"
    /\ last.tells = <<"Failure">>
    /\ \E n \in MqttNodes : mqn[n].held # NoClient

\* C15: when both MQTT client nodes of the server key have been initialised and
\* have obtained their client, they hold the same client and one client has
\* been built; and after one of the two nodes has been destroyed the client the
\* other node holds is not closed.
C15_SharedClient ==
    /\ (\A n \in MqttNodes : mqn[n].state = "ready" /\ mqn[n].held # NoClient) =>
          /\ \A n, m \in MqttNodes : mqn[n].held = mqn[m].held
          /\ Cardinality({c \in Clients : conns[c] # "none"}) = 1
    /\ \A n \in MqttNodes :
          (/\ mqn[n].state = "ready"
           /\ mqn[n].held # NoClient
           /\ \E m \in MqttNodes \ {n} : mqn[m].state = "destroyed") =>
              conns[mqn[n].held] # "closed"

\* C16: an Init whose configuration decoded and that asked for construction now,
\* with no instance built before, has run the constructor, and has returned an
\* error when the construction failed; an Init that did not ask for it has run
\* no constructor, and has left the node with no client of its own.
C16_EagerInit ==
    (last.op = "Init" /\ mqn[last.node].state = "ready") =>
        /\ (last.initNow /\ ~last.built) =>
              /\ last.ran
              /\ last.failed => last.err # NoErr
        /\ ~last.initNow =>
              /\ ~last.ran
              /\ mqn[last.node].client = NoClient

\* C17: while a reload runs, an instance has been destroyed only if it is the
\* one the wrapper held at the call and the new instance's Init has returned
\* success; when the reload has returned success that old instance has been
\* destroyed once, no other has, and the wrapper holds the new live instance,
\* the new definition and the aspect list the new instance was initialised with.
C17_ReloadSwap ==
    /\ rl.pc # "idle" =>
          \A i \in Insts :
              inst[i].destroys # pre.inst[i].destroys =>
                  /\ i = pre.rn.Node
                  /\ rl.err = NoErr
                  /\ rl.pc # "init"
                  /\ inst[rl.ctx.Node].state = "live"
                  /\ inst[rl.ctx.Node].def = rl.def
    /\ (rl.pc = "returned" /\ rl.err = NoErr) =>
          /\ inst[pre.rn.Node].destroys = pre.inst[pre.rn.Node].destroys + 1
          /\ rn.Node # pre.rn.Node
          /\ inst[rn.Node].state = "live"
          /\ inst[rn.Node].destroys = 0
          /\ rn.SelfDefinition = rl.def
          /\ inst[rn.Node].def = rl.def
          /\ rn.aspects = inst[rn.Node].aspects
          /\ rn.aspects = IF chainCtx = "nil" THEN <<>> ELSE chainAspects

\* A second successful reload has returned: the first two instances have been
\* destroyed once each and the wrapper holds the third.
C17_Witness ==
    /\ rl.pc = "returned"
    /\ rl.err = NoErr
    /\ reloads = 2
    /\ rn.Node = 3
    /\ inst[1].destroys = 1
    /\ inst[2].destroys = 1
    /\ inst[3].destroys = 0

\* C18: when a before-init aspect returns an error, all before it having
\* accepted, initialisation returns that error, has run no aspect after it, has
\* created no component instance and has not called the component's Init.
C18_BeforeInitAborts ==
    made.called =>
        \A j \in 1..Len(made.aspects) :
            (/\ OnNodeBeforeInit(made.aspects[j], made.def) # NoErr
             /\ \A k \in 1..(j - 1) : OnNodeBeforeInit(made.aspects[k], made.def) = NoErr) =>
                /\ made.err = OnNodeBeforeInit(made.aspects[j], made.def)
                /\ made.ran = j
                /\ made.created = NoNode
                /\ ~made.inited

\* The first of two aspects rejected the definition of a registered type.
C18_Witness ==
    /\ made.called
    /\ made.aspects = <<"guard", "log">>
    /\ made.def.cfg = "forbidden"
    /\ made.def.type = "registered"
    /\ made.err = "rejected"

\* C19: when every before-init aspect accepts and the type is not registered,
\* initialisation returns an error and a wrapper that holds the definition, the
\* chain reference, the engine config and the aspects it was called with and no
\* component instance; GetNodeId and IsDebugMode on it give the definition's id
\* and debug flag.
C19_UnregisteredWrapper ==
    (/\ made.called
     /\ \A j \in 1..Len(made.aspects) : OnNodeBeforeInit(made.aspects[j], made.def) = NoErr
     /\ NewNode(made.def.type) # NoErr) =>
        /\ made.err # NoErr
        /\ made.shape = "set"
        /\ made.created = NoNode
        /\ ~made.inited
        /\ made.ctx.Node = NoNode
        /\ made.ctx.SelfDefinition = made.def
        /\ made.ctx.ChainCtx = made.chain
        /\ made.ctx.config = "config"
        /\ made.ctx.aspects = made.aspects
        /\ acc.op = "GetNodeId" => (~acc.panic /\ acc.id = made.def.id)
        /\ acc.op = "IsDebugMode" => (~acc.panic /\ acc.debug = made.def.debugMode)

\* The debug flag was read from the wrapper of a node of an unregistered type.
C19_Witness ==
    /\ made.called
    /\ made.def.type = "unregistered"
    /\ made.err = "unregistered"
    /\ made.aspects = <<"log", "guard">>
    /\ made.chain = "chain"
    /\ acc.op = "IsDebugMode"
    /\ acc.debug

\* C20: ReloadChild and GetNodeById on a leaf wrapper leave the wrapper as it
\* is and report an error that says the operation is not supported, for every
\* argument.
C20_LeafUnsupported ==
    [][(acc' # acc /\ acc'.op \in {"ReloadChild", "GetNodeById"}) =>
          /\ made' = made
          /\ acc'.err = "not support this func"]_vars

\* C21: a Restart that has returned an error is one whose Start failed; one
\* whose Start succeeded has returned nil whatever the replays returned, has
\* called AddRouter for every route enabled before, each being in the new route
\* table, and has every route whose replay returned no error on the new router.
C21_RestartBestEffort ==
    rs.pc = "returned" =>
        /\ ret.err # NoErr => (ret.err = "listen" /\ ~serving)
        /\ ret.err = NoErr =>
              /\ rs.todo = {}
              /\ \A id \in Ids :
                    rs.old[id] # NoRoute =>
                        /\ storage[id] = rs.old[id]
                        /\ id \notin rs.errs =>
                              router[<<routeParams[rs.old[id]], PathOf(rs.old[id])>>].route
                                  = rs.old[id]

\* A Restart has returned nil after one replay failed and another succeeded.
C21_Witness ==
    /\ rs.pc = "returned"
    /\ ret.err = NoErr
    /\ rs.errs # {}
    /\ \E id \in Ids : rs.old[id] # NoRoute /\ id \notin rs.errs

\* C22: x.client is set only by a construction that succeeded. While every
\* construction so far has failed the slot is unbuilt, a caller whose
\* construction failed has the error and no client, and the next caller to look
\* at the unbuilt slot constructs again; once the slot is built no step calls
\* mqtt.NewClient and the slot keeps its client.
C22_StoredOnlyOnSuccess ==
    [][ /\ (failures' = newClientCalls') => (client' = NoClient)
        /\ \A t \in Callers :
              /\ mq'[t].err # NoErr => (mq'[t].got = NoClient /\ mq'[t].pc \in {"unlock", "returned"})
              /\ (mq[t].pc = "construct" /\ mq'[t].err # NoErr) =>
                    (client' = NoClient /\ failures' = failures + 1)
              /\ (mq[t].pc = "check" /\ mq'[t].pc # "check" /\ client = NoClient) =>
                    mq'[t].pc = "construct"
        /\ client # NoClient => (newClientCalls' = newClientCalls /\ client' = client)
      ]_mqttVars

\* A first caller's construction failed, a second caller constructed again and
\* stored the client, and a third was handed the stored client.
C22_Witness ==
    /\ \A t \in Callers : mq[t].pc = "returned"
    /\ failures = 1
    /\ newClientCalls = 2
    /\ client = 2
    /\ \E t \in Callers : mq[t].err # NoErr /\ mq[t].got = NoClient
    /\ Cardinality({t \in Callers : mq[t].got = client}) = 2

\* C30: when Restart has returned the error of Start, the route table holds
\* the routes it held when Restart was called, each with the disabled flag it
\* had then.
C30_FailedRestartKeepsTable ==
    (rs.pc = "returned" /\ ret.err = "listen") =>
        /\ storage = rs.table
        /\ {r \in Routes : routeDisabled[r]} = rs.flags

\* C27: between API calls every stored, enabled route is the one the router
\* dispatches its method and path to, and an AddRouter that returns an error
\* leaves the route table as it was.
C27_TableMatchesSurface ==
    [][/\ rs'.pc = "idle" =>
             \A id \in Ids :
                (storage'[id] # NoRoute /\ ~routeDisabled'[storage'[id]]) =>
                    router'[<<routeParams'[storage'[id]], PathOf(storage'[id])>>].route
                        = storage'[id]
       /\ (ret'.op = "AddRouter" /\ ops' = ops + 1 /\ ret'.err # NoErr) =>
             (storage' = storage /\ storageNil' = storageNil)]_vars

\* C28: when Destroy and every OnMsg call have returned, the client the node
\* constructed and stored has been closed, and no call that began after Destroy
\* returned was handed a client that Destroy had closed.
C28_NoClientLeaked ==
    /\ (dst.pc = "returned" /\ \A t \in Callers : mq[t].pc \in {"idle", "returned"}) =>
          (client # NoClient => client \in dst.closed)
    /\ \A t \in Callers :
          (mq[t].pc = "returned" /\ mq[t].afterDestroy /\ mq[t].got # NoClient) =>
              mq[t].got \notin dst.closed

\* The three scopes a placeholder may name, as they were at the call
ThreeScopes ==
    [sc \in {"global", "vars", "secrets"} |->
        CASE sc = "global" -> properties [] sc = "vars" -> pv.varsAt [] OTHER -> pv.secretsAt]

\* C25: after processVariables every string entry of the result is the entry
\* given with its placeholders resolved against the global properties, the
\* chain's variables and the chain's secrets; every other entry is the entry
\* given; the definition's configuration is as it was; and the variables and
\* secrets handed to the node are those of the time of the call.
C25_VariablesResolved ==
    pv.called =>
        /\ \A key \in CfgKeys :
              IF pv.given[key].kind = "string"
              THEN pv.result[key] =
                       [kind |-> "string", v |-> ExecuteTemplate(pv.given[key].v, ThreeScopes)]
              ELSE pv.result[key] = pv.given[key]
        /\ configuration = pv.given
        /\ pv.vars # NilRef => heap[pv.vars] = pv.varsAt
        /\ pv.secrets # NilRef => heap[pv.secrets] = pv.secretsAt

\* C23: processing started for a fire-and-forget route runs under a context
\* that is not cancelled while the endpoint serves, whether its request has
\* ended or not, and that is cancelled once the endpoint has been closed.
C23_DetachedCancelledOnClose ==
    (resp.result = "processed" /\ resp.ctx = "background") =>
        /\ serving => ~resp.cancelled
        /\ (ret.op = "Close" /\ ret.err = NoErr) => resp.cancelled

\* C24: RouterStorage is never read or written without the endpoint's mutex
\* held, and never written while another goroutine holds the mutex to read or
\* write it.
C24_TableUnderLock ==
    /\ ghost.bare = {}
    /\ ghost.race = {}

\* C26: when addRouter, called with n routes and with no Restart or Close
\* running, has returned no error, each of the n routes is in the route table
\* and has a handler on the router that serves the endpoint: its own, or the
\* shared instance's when it delegates.
C26_AllRoutesRegistered ==
    (/\ gor["add"].pc = "returned"
     /\ gor["add"].err = NoErr
     /\ gor["restart"].pc = "idle"
     /\ gor["close"].pc = "idle") =>
        \A k \in 1..Len(gor["add"].routers) :
            /\ gor["add"].routers[k] \in tbl
            /\ gor["add"].routers[k] \in (IF instanceId = "" THEN surf ELSE sharedInst.router)

\* C29: on an endpoint that owns its router and is not being closed, when an
\* addRouter and a Restart that ran side by side have both returned no error,
\* every route added is in the route table and has a handler on the router.
C29_NoRouteLost ==
    (/\ instanceId = ""
     /\ gor["add"].pc = "returned"
     /\ gor["add"].err = NoErr
     /\ gor["restart"].pc = "returned"
     /\ gor["restart"].err = NoErr
     /\ gor["close"].pc = "idle") =>
        \A k \in 1..Len(gor["add"].routers) :
            gor["add"].routers[k] \in tbl /\ gor["add"].routers[k] \in surf

\* C31: the wrapper that node initialisation returns, with or without an
\* error, is not nil and holds the definition it was called with, and GetNodeId
\* and IsDebugMode on it do not panic.
C31_WrapperAlwaysSet ==
    made.called =>
        /\ made.shape = "set"
        /\ acc.op \in {"GetNodeId", "IsDebugMode"} => ~acc.panic

\* C32: when Close of a delegating endpoint has deleted its keys from the
\* shared instance and returned, with no Restart of the endpoint running, the
\* shared instance's route table holds none of those keys, and the route another
\* endpoint registered is still in that table and on the shared router.
C32_CloseKeepsOtherRoutes ==
    (/\ instanceId # ""
     /\ gor["close"].pc = "returned"
     /\ gor["close"].old # {}
     /\ gor["restart"].pc = "idle") =>
        /\ gor["add"].pc \in {"idle", "returned"} =>
              sharedInst.RouterStorage \cap gor["close"].old = {}
        /\ OtherRoute \in sharedInst.RouterStorage
        /\ OtherRoute \in sharedInst.router

====
